---- MODULE Spec2Model ----
(***************************************************************************)
(* Verification model of the f58mqtt firmware (crates/f58mqtt_rp2040).     *)
(*                                                                         *)
(*   state.rs : LED signal tracker (DeviceStateManager), the actuation     *)
(*              reconciler (get_action), the two tasks and their locks     *)
(*   mqtt.rs  : the synchronous socket adapter (BlockingSocketStack), the  *)
(*              session orchestrator (minimq_task)                         *)
(*   main.rs  : the queue of log lines (LOG_CHANNEL, mqtt_log)             *)
(*                                                                         *)
(* Instants and durations are in milliseconds.  Each component has its own *)
(* specification over the shared variables: SpecTracker and SpecHistory,   *)
(* SpecDecide, SpecAdapter, SpecCommands, SpecSubscribe, SpecTelemetry and *)
(* SpecLog for the iterations of minimq_task, SpecTasks and SpecTasksFair  *)
(* for the statements of the three tasks under the executor.               *)
(***************************************************************************)
EXTENDS Integers, Sequences, FiniteSets, TLC

VARIABLES
    clock,      \* Instant::now()
    leds,       \* DEVICE_STATE_MANAGER.leds : [(Instant, gpio::Level); 3]
    classified, \* the last get_current_state call: its inputs and its result
    unknown_state_since, \* state_actuator_task's Option<Instant>
    decided,    \* the last get_action call: its inputs and its result
    unknownRun, \* history: <<now, action>> of the calls of the current
                \* uninterrupted run of get_action calls that saw Unknown
    stack,      \* BlockingSocketStack: current_socket_id, last_socket_id
    tcp_socket, \* the wrapped tcp::TcpSocket: TCP state, buffered bytes
    ret,        \* the last TcpClientStack call: arguments, result, state before
    issued,     \* history: the ids returned by socket(), in order
    closed,     \* history: the ids passed to a successful close()
    hist,       \* history: the led_detector_task iterations, when recorded
    lost,       \* history: the wrapped socket left Established under the
                \* open logical socket, which has not called receive since
    TARGET_STATE,         \* the static TARGET_STATE
    need_resubscribe,     \* minimq_task's need_resubscribe
    last_published_state, \* minimq_task's (Instant, DeviceState)
    log_channel,          \* LOG_CHANNEL: the queued lines, oldest first
    produced,   \* history: the number of lines passed to LOG_CHANNEL.try_send;
                \* the n-th of them is the line n
    tick,       \* the last iteration of minimq_task's loop: its inputs, what
                \* it did, the state before it
    pc,         \* where each task stands in its code
    running,    \* the task the executor is polling, if any
    dsm_guard,  \* the task holding the guard of DEVICE_STATE_MANAGER, if any
    target_guard, \* the task holding the guard of TARGET_STATE, if any
    local,      \* each task's locals that live across a statement
    pin,        \* state_actuator_task's output pin
    timer,      \* the Instant at which state_actuator_task's Timer expires
    pulse,      \* history: the last push, its Action, its start and its end
    poll_timer, \* the Instant at which led_detector_task's Timer expires
    device      \* the device's LEDs over time: when LED0 starts to toggle,
                \* when LED1 goes Low

trackerVars == <<leds, classified, hist>>
decideVars == <<unknown_state_since, decided, unknownRun>>
adapterVars == <<stack, tcp_socket, ret, issued, closed, lost>>
sessionVars == <<TARGET_STATE, need_resubscribe, last_published_state,
                 log_channel, produced, tick>>
taskVars == <<pc, running, dsm_guard, target_guard, local, pin>>
vars == <<clock, leds, classified, unknown_state_since, decided, unknownRun,
          stack, tcp_socket, ret, issued, closed, hist, lost,
          TARGET_STATE, need_resubscribe, last_published_state, log_channel,
          produced, tick, pc, running, dsm_guard, target_guard, local, pin,
          timer, pulse, poll_timer, device>>

\* What the steps of one component leave alone.
timerVars == <<timer, pulse>>
samplerVars == <<poll_timer, device>>
otherThanTracker == <<samplerVars, decideVars, adapterVars, sessionVars, taskVars, timerVars>>
otherThanDecide == <<samplerVars, trackerVars, adapterVars, sessionVars, taskVars, timerVars>>
otherThanAdapter == <<samplerVars, trackerVars, decideVars, sessionVars, taskVars, timerVars>>
otherThanSession == <<trackerVars, decideVars, stack, issued, closed, taskVars,
                      timerVars, samplerVars>>
\* What no statement of a task changes: the histories and records of the
\* other specifications, the socket adapter, the queue of log lines.
otherThanTasks == <<classified, hist, decided, unknownRun, stack, ret, issued,
                    closed, lost, log_channel, produced, tick, timerVars,
                    samplerVars>>

----------------------------------------------------------------------------
(* Bounds *)

\* The clock of the signal-tracker specification stops advancing here.
MaxTrackerTime == 1500
\* Amounts of time that may pass between two steps of the tracker.
TrackerSteps == {300, 301}
\* The same for the specification that records the sampler's iterations, and
\* the number of iterations it records.
MaxHistoryTime == 1500
HistorySteps == {500, 501}
MaxSamples == 3
\* The clock of the session specifications stops advancing here.
MaxSessionTime == 91000
\* Amounts of time that may pass between two iterations of minimq_task.
SessionSteps == {30000, 30001}
\* No line is formatted once this many have been: in the specification of
\* the log queue, and in the others.
MaxLines == 18
FewLines == 2
\* The clock of the task specification stops advancing here.
MaxTaskTime == 1000
\* The amount of time that may pass while every task is suspended.
TaskSteps == {1000}
\* The clock of the timed actuation loop stops advancing here.
MaxRefreshTime == 63000

MaxSamplerTime == 4500
\* the clock advances by 50 ms, which divides every period of the sampler
\* and of the device and is the most by which a poll is late
SamplerSteps == {50}
\* the times at which LED0 starts to toggle, the times at which LED1 goes Low
StartTimes == {0, 150, 1000, 1900, 2000}
FallTimes == {0, 1000}

MaxActuatorTime == 16000
\* Amounts of time that may pass while state_actuator_task waits for a timer.
ActuatorSteps == {500, 1500}
\* The clock of the reconciler specification stops advancing here.
MaxDecideTime == 43000
\* Amounts of time that may pass between two get_action calls.
DecideSteps == {7000, 7001}
\* Longest recorded run of consecutive calls that saw Unknown.
MaxRun == 5
\* socket() is not called once last_socket_id has reached this value.
MaxSocketId == 3
\* Size of the socket's transmit buffer and of its receive buffer, in bytes.
TxCapacity == 3
RxCapacity == 2
\* Longest buffer passed to send and receive.
MaxLen == 2

----------------------------------------------------------------------------
(* state.rs: types *)

PowerLevel == {"Low", "Medium", "High"}
Level == {"Low", "High"}

DeviceOff == <<"Off">>
DeviceUnknown == <<"Unknown">>
Heating(p) == <<"Heating", p>>
DeviceOn(p) == <<"On", p>>
DeviceState == {DeviceOff, DeviceUnknown} \cup {Heating(p) : p \in PowerLevel}
                   \cup {DeviceOn(p) : p \in PowerLevel}

TargetOff == <<"TargetOff">>
TargetOn(p) == <<"TargetOn", p>>
TargetState == {TargetOff} \cup {TargetOn(p) : p \in PowerLevel}

\* Option<Instant>
None == <<>>
Some(x) == <<x>>

INSTANT_MIN == 0
NoCall == <<"none">>

----------------------------------------------------------------------------
(* state.rs: signal tracker *)

BLINK_DURATION == 900

\* Instant::duration_since(earlier), for an earlier that is not after now
\* (every caller below passes the clock's current reading as now).
duration_since(now, earlier) == now - earlier

\* Variant: an LED counts as steady from exactly BLINK_DURATION on.
led_state_ge(obs, now) ==
    IF duration_since(now, obs[1]) >= BLINK_DURATION
    THEN (IF obs[2] = "Low" THEN "Off" ELSE "On")
    ELSE "Blinking"

led_state(obs, now) ==
    IF duration_since(now, obs[1]) > BLINK_DURATION
    THEN (IF obs[2] = "Low" THEN "Off" ELSE "On")
    ELSE "Blinking"

DeviceStateManager_new == [i \in 0..2 |-> <<INSTANT_MIN, "Low">>]

\* Variant: every sample is stored, with its time.
update_always(l, led, level, now) ==
    [l EXCEPT ![led] = <<now, level>>]

\* Variant: a changed level is stored under the time of the previous change.
update_level_only(l, led, level, now) ==
    IF l[led][2] # level THEN [l EXCEPT ![led] = <<l[led][1], level>>] ELSE l

\* DeviceStateManager::update
update(l, led, level, now) ==
    IF l[led][2] # level THEN [l EXCEPT ![led] = <<now, level>>] ELSE l

state(l, now) ==
    LET m == <<led_state(l[0], now), led_state(l[1], now), led_state(l[2], now)>>
    IN CASE m = <<"Off", "Off", "Off">> -> DeviceOff
         [] m = <<"On", "Off", "Off">> -> DeviceOn("Low")
         [] m = <<"On", "On", "Off">> -> DeviceOn("Medium")
         [] m = <<"On", "On", "On">> -> DeviceOn("High")
         [] m = <<"Blinking", "Off", "Off">> -> Heating("Low")
         [] m = <<"On", "Blinking", "Off">> -> Heating("Medium")
         [] m = <<"On", "On", "Blinking">> -> Heating("High")
         [] OTHER -> DeviceUnknown

\* One iteration of led_detector_task after its wait: the three pins are
\* sampled and recorded under the lock with one reading of the clock.
led_detector_task ==
    \E l0 \in Level, l1 \in Level, l2 \in Level :
        LET after0 == update(leds, 0, l0, clock)
            after1 == update(after0, 1, l1, clock)
            after2 == update(after1, 2, l2, clock)
        IN /\ leds' = after2
           /\ classified' = NoCall
           /\ hist' = IF hist.on
                      THEN [on |-> TRUE,
                            calls |-> Append(hist.calls, <<clock, <<l0, l1, l2>>>>),
                            last |-> <<leds, after0, after1, after2>>]
                      ELSE hist
           /\ UNCHANGED <<clock, otherThanTracker>>

\* get_current_state(now) with now = Instant::now()
get_current_state ==
    /\ classified' = <<"state", leds, clock, state(leds, clock)>>
    /\ UNCHANGED <<clock, leds, hist, otherThanTracker>>

\* Time passes while the tracker's tasks are suspended.
TrackerAdvance ==
    \E d \in TrackerSteps :
        /\ clock + d <= MaxTrackerTime
        /\ clock' = clock + d
        /\ classified' = NoCall
        /\ UNCHANGED <<leds, hist, otherThanTracker>>

NextTracker == led_detector_task \/ get_current_state \/ TrackerAdvance

\* An iteration of led_detector_task that is recorded in the history.
led_detector_recorded ==
    /\ hist.on
    /\ Len(hist.calls) < MaxSamples
    /\ led_detector_task

HistoryAdvance ==
    \E d \in HistorySteps :
        /\ clock + d <= MaxHistoryTime
        /\ clock' = clock + d
        /\ classified' = NoCall
        /\ UNCHANGED <<leds, hist, otherThanTracker>>

NextHistory == led_detector_recorded \/ get_current_state \/ HistoryAdvance

----------------------------------------------------------------------------
(* state.rs: the sampler on its periodic poll, in front of a device *)

\* Variant: the poll period without the 50 ms it leaves under half of
\* BLINK_DURATION.
POLL_PERIOD_half == BLINK_DURATION \div 2

POLL_PERIOD == BLINK_DURATION \div 2 - 50

\* The period at which the device toggles a blinking LED.
TOGGLE_PERIOD == 400

\* No device is attached: the pins are not driven.
NoDevice == [start |-> 0, fall |-> 0]

\* pin.get_level() at the time t in front of the device d: LED0 is Low
\* until d.start and toggles from then on, High first; LED1 is High until
\* d.fall and Low from then on; LED2 is Low.
get_level(d, led, t) ==
    CASE led = 0 -> IF t < d.start THEN "Low"
                    ELSE IF ((t - d.start) \div TOGGLE_PERIOD) % 2 = 0
                         THEN "High" ELSE "Low"
      [] led = 1 -> IF t < d.fall THEN "High" ELSE "Low"
      [] OTHER   -> "Low"

\* led_detector_task where no edge wakes it: the select4 returns when the
\* Timer has expired, the three pins are read and recorded with one reading
\* of the clock, and the next wait starts.
led_detector_poll ==
    /\ poll_timer # None
    /\ clock >= poll_timer[1]
    /\ LET after0 == update(leds, 0, get_level(device, 0, clock), clock)
           after1 == update(after0, 1, get_level(device, 1, clock), clock)
           after2 == update(after1, 2, get_level(device, 2, clock), clock)
       IN leds' = after2
    /\ classified' = NoCall
    /\ poll_timer' = Some(clock + POLL_PERIOD)
    /\ UNCHANGED <<clock, hist, device, decideVars, adapterVars, sessionVars,
                   taskVars, timerVars>>

\* Time passes. Timer::after(POLL_PERIOD) expires no earlier than its
\* deadline: the sampler runs at the deadline or within one step of the
\* clock after it.
SamplerAdvance ==
    \E d \in SamplerSteps :
        /\ clock + d <= MaxSamplerTime
        /\ clock <= poll_timer[1]
        /\ clock' = clock + d
        /\ classified' = NoCall
        /\ UNCHANGED <<leds, hist, otherThanTracker>>

NextSampler == led_detector_poll \/ get_current_state \/ SamplerAdvance

----------------------------------------------------------------------------
(* state.rs: actuation reconciler *)

STATE_WARNING_TIMEOUT == 11000
RESET_TIMEOUT == 21000

\* Variant: Heating(x) is taken for the next lower goal than On(x).
to_target_state_heating(current_state) ==
    CASE current_state = DeviceOff -> TargetOff
      [] current_state[1] = "On" -> TargetOn(current_state[2])
      [] current_state[1] = "Heating" ->
            IF current_state[2] = "Low" THEN TargetOff
            ELSE TargetOn(IF current_state[2] = "High" THEN "Medium" ELSE "Low")

\* The first match of get_action: Ok(goal shape) of a classifiable state.
to_target_state(current_state) ==
    CASE current_state = DeviceOff -> TargetOff
      [] current_state[1] \in {"Heating", "On"} -> TargetOn(current_state[2])

\* Variant: the reset fires without restarting the unknown-state timer.
unknown_arm_keep(now, unknown_state_since_) ==
    LET fresh == unknown_state_since_ = None
        since1 == IF fresh THEN Some(now) ELSE unknown_state_since_
        unknown_state_for == IF fresh THEN 0
                             ELSE duration_since(now, unknown_state_since_[1])
        warn == unknown_state_for > STATE_WARNING_TIMEOUT
    IN IF unknown_state_for > RESET_TIMEOUT
       THEN [action |-> "LongPush", since |-> since1, log |-> warn]
       ELSE [action |-> "None", since |-> since1, log |-> warn]

\* The DeviceState::Unknown arm of get_action.
unknown_arm(now, unknown_state_since_) ==
    LET fresh == unknown_state_since_ = None
        since1 == IF fresh THEN Some(now) ELSE unknown_state_since_
        unknown_state_for == IF fresh THEN 0
                             ELSE duration_since(now, unknown_state_since_[1])
        warn == unknown_state_for > STATE_WARNING_TIMEOUT
    IN IF unknown_state_for > RESET_TIMEOUT
       THEN [action |-> "LongPush", since |-> None, log |-> warn]
       ELSE [action |-> "None", since |-> since1, log |-> warn]

\* Variant: every difference between two goals is answered by a long push.
match_action_long(current, target) ==
    CASE current = target -> "None"
      [] OTHER -> "LongPush"

\* The final match of get_action on (current_state, target_state).
match_action(current, target) ==
    CASE current = target -> "None"
      [] current = TargetOff /\ target[1] = "TargetOn" -> "LongPush"
      [] current[1] = "TargetOn" /\ target = TargetOff -> "LongPush"
      [] OTHER -> "ShortPush"

\* Variant: a classifiable state leaves *unknown_state_since as it is.
get_action_since_kept(current_state, target_state, now, unknown_state_since_) ==
    IF current_state = DeviceUnknown
    THEN unknown_arm(now, unknown_state_since_)
    ELSE [action |-> match_action(to_target_state(current_state), target_state),
          since |-> unknown_state_since_, log |-> FALSE]

\* get_action: the returned Action, the new *unknown_state_since, and
\* whether the "unknown state for ..." line was passed to mqtt_log!.
get_action(current_state, target_state, now, unknown_state_since_) ==
    IF current_state = DeviceUnknown
    THEN unknown_arm(now, unknown_state_since_)
    ELSE [action |-> match_action(to_target_state(current_state), target_state),
          since |-> None, log |-> FALSE]

\* One decision of state_actuator_task: the clock is read and get_action is
\* called on the current and the target state.
actuator_decide ==
    \E current_state \in DeviceState, target_state \in TargetState :
        LET r == get_action(current_state, target_state, clock, unknown_state_since)
        IN /\ current_state = DeviceUnknown => Len(unknownRun) < MaxRun
           /\ unknown_state_since' = r.since
           /\ decided' = <<"get_action", current_state, target_state, clock,
                           r.action, r.log>>
           /\ unknownRun' = IF current_state = DeviceUnknown
                            THEN Append(unknownRun, <<clock, r.action>>)
                            ELSE <<>>
           /\ UNCHANGED <<clock, otherThanDecide>>

\* Time passes between two decisions.
DecideAdvance ==
    \E d \in DecideSteps :
        /\ clock + d <= MaxDecideTime
        /\ clock' = clock + d
        /\ UNCHANGED <<decideVars, otherThanDecide>>

NextDecide == actuator_decide \/ DecideAdvance

----------------------------------------------------------------------------
(* mqtt.rs, mod interop: the wrapped socket *)

\* No TcpClientStack call was made in the last step.
NoRet == [op |-> "none"]

\* tcp::State of the wrapped socket.
TcpState == {"Closed", "Established", "FinWait1", "FinWait2", "Closing",
             "TimeWait", "CloseWait", "LastAck"}

\* TcpSocket::new: closed, both buffers empty.
TcpSocket_new == [st |-> "Closed", rx |-> 0, tx |-> 0]

\* socket.state()
tcp_state(s) == s.st

\* socket.may_recv(): true while the receive half is open and false once it
\* is closed with nothing buffered; the source does not fix the answer for a
\* closed receive half with bytes still buffered, so both are possible.
may_recv(s) ==
    IF s.st \in {"Established", "FinWait1", "FinWait2"} THEN {TRUE}
    ELSE IF s.rx = 0 THEN {FALSE}
    ELSE {TRUE, FALSE}

\* socket.can_recv(): there is something in the receive buffer.
can_recv(s) == s.rx > 0

\* socket.send_capacity() and socket.send_queue()
send_capacity(s) == TxCapacity
send_queue(s) == s.tx

\* socket.may_send(): the transmit half is open.
may_send(s) == s.st \in {"Established", "CloseWait"}

\* The future of socket.write or socket.read is not ready: block_on polls it
\* for ever, the adapter call does not return.
NotReady == <<"Pending">>

\* socket.write(slice) polled once: the outcomes <<result, socket after>>.
\* With room in the buffer and a non-empty slice some bytes are queued; with
\* no room or nothing to queue the future waits for room.
tcp_write(s, size) ==
    IF ~may_send(s)
    THEN {<<<<"ConnectionReset">>, s>>}
    ELSE IF size = 0 \/ send_capacity(s) - send_queue(s) = 0
    THEN {<<NotReady, s>>}
    ELSE {<<<<"Ok", n>>, [s EXCEPT !.tx = @ + n]>> : n \in 1..size}

\* socket.read(buffer) polled once, for a non-empty buffer: bytes are taken
\* when some are buffered; with none the future waits for data.
tcp_read(s, len) ==
    IF s.rx = 0
    THEN {<<NotReady, s>>}
    ELSE {<<<<"Ok", n>>, [s EXCEPT !.rx = @ - n]>> :
             n \in 1..(IF s.rx < len THEN s.rx ELSE len)}

\* socket.close(): the transmit half is closed.
tcp_close(s) ==
    CASE s.st = "Established" -> [s EXCEPT !.st = "FinWait1"]
      [] s.st = "CloseWait" -> [s EXCEPT !.st = "LastAck"]
      [] OTHER -> s

\* History: a loss is pending once the socket leaves Established while a
\* logical socket is open.
Lost(was, current, before, after) ==
    \/ was
    \/ current # None /\ before.st = "Established" /\ after.st # "Established"

\* Variant: a socket that is not Established is left as it is.
ensure_connected_socket_idle(s) == {s}

\* The socket after ensure_connected: an established socket is left alone;
\* any other is aborted, flushed and connected anew, which may fail.
ensure_connected_socket(s) ==
    IF tcp_state(s) = "Established" THEN {s}
    ELSE {[st |-> "Established", rx |-> 0, tx |-> 0],
          [st |-> "Closed", rx |-> 0, tx |-> 0]}

\* ensure_connected, called between two calls of the protocol client.
ensure_connected ==
    /\ tcp_socket' \in ensure_connected_socket(tcp_socket)
    /\ ret' = NoRet
    /\ lost' = Lost(lost, stack.current_socket_id, tcp_socket, tcp_socket')
    /\ UNCHANGED <<clock, otherThanAdapter, stack, issued, closed>>

\* What the network and the peer do to the wrapped socket between two calls.
network ==
    /\ \/ /\ tcp_socket.st \in {"Established", "FinWait1", "FinWait2"}
          /\ tcp_socket.rx < RxCapacity
          /\ tcp_socket' = [tcp_socket EXCEPT !.rx = @ + 1]
       \/ /\ tcp_socket.tx > 0
          /\ tcp_socket.st # "Closed"
          /\ tcp_socket' = [tcp_socket EXCEPT !.tx = @ - 1]
       \/ /\ tcp_socket.st = "Established"
          /\ tcp_socket' = [tcp_socket EXCEPT !.st = "CloseWait"]
       \/ /\ tcp_socket.st = "FinWait1"
          /\ tcp_socket' \in {[tcp_socket EXCEPT !.st = "FinWait2"],
                              [tcp_socket EXCEPT !.st = "Closing"]}
       \/ /\ tcp_socket.st \in {"FinWait2", "Closing"}
          /\ tcp_socket' = [tcp_socket EXCEPT !.st = "TimeWait"]
       \/ /\ tcp_socket.st # "Closed"
          /\ tcp_socket' = [tcp_socket EXCEPT !.st = "Closed"]
    /\ ret' = NoRet
    /\ lost' = Lost(lost, stack.current_socket_id, tcp_socket, tcp_socket')
    /\ UNCHANGED <<clock, otherThanAdapter, stack, issued, closed>>

----------------------------------------------------------------------------
(* mqtt.rs, mod interop: BlockingSocketStack *)

\* The two remote addresses a caller may pass: the configured one, another.
Endpoint == "endpoint"
SocketAddr == {Endpoint, "other"}

\* BlockingSocketStack::new
BlockingSocketStack_new == [current_socket_id |-> None, last_socket_id |-> 0]

\* SocketError values and nb::Error::WouldBlock.
UnexpectedSocketId(expected, got) == <<"UnexpectedSocketId", expected, got>>
UnexpectedAddr(expected, got) == <<"UnexpectedAddr", expected, got>>
ConnectionReset == <<"ConnectionReset">>
WouldBlock == <<"WouldBlock">>
Ok(x) == <<"Ok", x>>

\* The outcome of a call: its result, the stack and the socket after it, and
\* whether the call borrowed the wrapped socket.
Outcome(res, self, s, touched) ==
    [res |-> res, stack |-> self, sock |-> s, touched |-> touched]

\* The outcome of a receive call that got past check_socket, with the answer
\* it had from socket.may_recv().
Received(res, self, s, mr) ==
    [res |-> res, stack |-> self, sock |-> s, touched |-> TRUE, may_recv |-> mr]

\* The outcome of a send call that called socket.write, with the headroom it
\* had computed and the size of the slice it passed.
Written(res, self, s, window, size) ==
    [res |-> res, stack |-> self, sock |-> s, touched |-> TRUE,
     write |-> [window |-> window, size |-> size]]

\* The outcome of a receive call that called socket.read, with the answers
\* it had from socket.may_recv() and socket.can_recv().
Taken(res, self, s, mr, cr) ==
    [res |-> res, stack |-> self, sock |-> s, touched |-> TRUE, may_recv |-> mr,
     read |-> [may_recv |-> mr, can_recv |-> cr]]

\* Variant: any id passes while no socket is open.
check_socket_lenient(self, got) ==
    IF got # self.current_socket_id /\ self.current_socket_id # None
    THEN UnexpectedSocketId(self.current_socket_id, got)
    ELSE Ok(<<>>)

\* check_socket: Ok(()) or the UnexpectedSocketId error.
check_socket(self, got) ==
    IF got # self.current_socket_id
    THEN UnexpectedSocketId(self.current_socket_id, got)
    ELSE Ok(<<>>)

\* Variant: a new socket is handed out whether or not one is open.
socket_unchecked(self, s) ==
    LET new_id == self.last_socket_id + 1
    IN {Outcome(Ok(new_id),
                [current_socket_id |-> Some(new_id), last_socket_id |-> new_id],
                s, FALSE)}

\* Variant: the new socket takes the id of the previous one.
socket_reuse(self, s) ==
    IF check_socket(self, None) # Ok(<<>>)
    THEN {Outcome(check_socket(self, None), self, s, FALSE)}
    ELSE LET new_id == IF self.last_socket_id = 0 THEN 1 ELSE self.last_socket_id
         IN {Outcome(Ok(new_id),
                     [current_socket_id |-> Some(new_id), last_socket_id |-> new_id],
                     s, FALSE)}

\* TcpClientStack::socket. last_socket_id is a u32: the increment cannot
\* overflow below 2^32 - 1, far above MaxSocketId.
socket(self, s) ==
    IF check_socket(self, None) # Ok(<<>>)
    THEN {Outcome(check_socket(self, None), self, s, FALSE)}
    ELSE LET new_id == self.last_socket_id + 1
         IN {Outcome(Ok(new_id),
                     [current_socket_id |-> Some(new_id), last_socket_id |-> new_id],
                     s, FALSE)}

\* Variant: the connection is reported as made in every socket state.
connect_always(self, s, id, remote) ==
    IF check_socket(self, Some(id)) # Ok(<<>>)
    THEN {Outcome(check_socket(self, Some(id)), self, s, FALSE)}
    ELSE IF Endpoint # remote
    THEN {Outcome(UnexpectedAddr(Endpoint, remote), self, s, FALSE)}
    ELSE {Outcome(Ok(<<>>), self, s, TRUE)}

\* TcpClientStack::connect
connect(self, s, id, remote) ==
    IF check_socket(self, Some(id)) # Ok(<<>>)
    THEN {Outcome(check_socket(self, Some(id)), self, s, FALSE)}
    ELSE IF Endpoint # remote
    THEN {Outcome(UnexpectedAddr(Endpoint, remote), self, s, FALSE)}
    ELSE IF tcp_state(s) = "Established"
    THEN {Outcome(Ok(<<>>), self, s, TRUE)}
    ELSE {Outcome(WouldBlock, self, s, TRUE)}

\* Variant: the whole buffer is written, whatever the room in the socket.
send_all(self, s, id, len) ==
    IF check_socket(self, Some(id)) # Ok(<<>>)
    THEN {Outcome(check_socket(self, Some(id)), self, s, FALSE)}
    ELSE LET send_window == send_capacity(s) - send_queue(s)
         IN IF send_window = 0
            THEN {Outcome(WouldBlock, self, s, TRUE)}
            ELSE IF len = 0
            THEN {Outcome(Ok(0), self, s, TRUE)}
            ELSE {Outcome(o[1], self, o[2], TRUE) : o \in tcp_write(s, len)}

\* TcpClientStack::send of a buffer of len bytes
send(self, s, id, len) ==
    IF check_socket(self, Some(id)) # Ok(<<>>)
    THEN {Outcome(check_socket(self, Some(id)), self, s, FALSE)}
    ELSE LET send_window == send_capacity(s) - send_queue(s)
             send_size == IF send_window < len THEN send_window ELSE len
         IN IF send_window = 0
            THEN {Outcome(WouldBlock, self, s, TRUE)}
            ELSE IF send_size = 0
            THEN {Outcome(Ok(0), self, s, TRUE)}
            ELSE {Written(o[1], self, o[2], send_window, send_size) :
                     o \in tcp_write(s, send_size)}

\* Variant: buffered bytes are handed out before the reset is reported.
receive_data_first(self, s, id, len) ==
    IF check_socket(self, Some(id)) # Ok(<<>>)
    THEN {Outcome(check_socket(self, Some(id)), self, s, FALSE)}
    ELSE UNION {
        IF can_recv(s)
        THEN {Received(o[1], self, o[2], mr) : o \in tcp_read(s, len)}
        ELSE IF ~mr
        THEN {Received(ConnectionReset, self, s, mr)}
        ELSE {Received(WouldBlock, self, s, mr)}
        : mr \in may_recv(s)}

\* Variant: the reset is reported whenever the socket is not Established.
receive_unless_established(self, s, id, len) ==
    IF check_socket(self, Some(id)) # Ok(<<>>)
    THEN {Outcome(check_socket(self, Some(id)), self, s, FALSE)}
    ELSE UNION {
        IF tcp_state(s) # "Established"
        THEN {Received(ConnectionReset, self, s, mr)}
        ELSE IF ~can_recv(s)
        THEN {Received(WouldBlock, self, s, mr)}
        ELSE {Received(o[1], self, o[2], mr) : o \in tcp_read(s, len)}
        : mr \in may_recv(s)}

\* Variant: read is called without asking whether anything is buffered.
receive_unbuffered(self, s, id, len) ==
    IF check_socket(self, Some(id)) # Ok(<<>>)
    THEN {Outcome(check_socket(self, Some(id)), self, s, FALSE)}
    ELSE UNION {
        IF ~mr
        THEN {Received(ConnectionReset, self, s, mr)}
        ELSE {Taken(o[1], self, o[2], mr, can_recv(s)) : o \in tcp_read(s, len)}
        : mr \in may_recv(s)}

\* TcpClientStack::receive into a buffer of len bytes
receive(self, s, id, len) ==
    IF check_socket(self, Some(id)) # Ok(<<>>)
    THEN {Outcome(check_socket(self, Some(id)), self, s, FALSE)}
    ELSE UNION {
        IF ~mr
        THEN {Received(ConnectionReset, self, s, mr)}
        ELSE IF ~can_recv(s)
        THEN {Received(WouldBlock, self, s, mr)}
        ELSE {Taken(o[1], self, o[2], mr, can_recv(s)) : o \in tcp_read(s, len)}
        : mr \in may_recv(s)}

\* Variant: the socket is closed but the logical connection stays open.
close_keep(self, s, id) ==
    IF check_socket(self, Some(id)) # Ok(<<>>)
    THEN {Outcome(check_socket(self, Some(id)), self, s, FALSE)}
    ELSE {Outcome(Ok(<<>>), self, tcp_close(s), TRUE)}

\* TcpClientStack::close
close(self, s, id) ==
    IF check_socket(self, Some(id)) # Ok(<<>>)
    THEN {Outcome(check_socket(self, Some(id)), self, s, FALSE)}
    ELSE {Outcome(Ok(<<>>), [self EXCEPT !.current_socket_id = None],
                  tcp_close(s), TRUE)}

\* A call made by the protocol client, with its record in ret.
Call(op, id, arg, outcomes) ==
    \E o \in outcomes :
        /\ stack' = o.stack
        /\ tcp_socket' = o.sock
        /\ ret' = [op |-> op, id |-> id, arg |-> arg, out |-> o,
                   pre |-> [stack |-> stack, sock |-> tcp_socket,
                            closed |-> closed, lost |-> lost]]
        /\ lost' = IF o.res[1] = "UnexpectedSocketId" THEN lost
                   ELSE IF op \in {"receive", "close"} THEN FALSE
                   ELSE Lost(lost, stack.current_socket_id, tcp_socket, o.sock)
        /\ issued' = IF op = "socket" /\ o.res[1] = "Ok"
                     THEN Append(issued, o.res[2]) ELSE issued
        /\ closed' = IF op = "close" /\ o.res[1] = "Ok"
                     THEN closed \cup {id} ELSE closed
        /\ UNCHANGED <<clock, otherThanAdapter>>

SocketIds == 1..(MaxSocketId + 1)

call_socket ==
    /\ stack.last_socket_id < MaxSocketId
    /\ Call("socket", 0, 0, socket(stack, tcp_socket))

call_connect ==
    \E id \in SocketIds, remote \in SocketAddr :
        Call("connect", id, remote, connect(stack, tcp_socket, id, remote))

call_send ==
    \E id \in SocketIds, len \in 0..MaxLen :
        Call("send", id, len, send(stack, tcp_socket, id, len))

call_receive ==
    \E id \in SocketIds, len \in 1..MaxLen :
        Call("receive", id, len, receive(stack, tcp_socket, id, len))

call_close ==
    \E id \in SocketIds :
        Call("close", id, 0, close(stack, tcp_socket, id))

NextAdapter ==
    \/ ensure_connected
    \/ network
    \/ call_socket
    \/ call_connect
    \/ call_send
    \/ call_receive
    \/ call_close

----------------------------------------------------------------------------
(* main.rs: the queue of log lines *)

LOG_CHANNEL_CAPACITY == 16

\* Variant: a line sent to the full queue pushes out the oldest one.
mqtt_log_evict(chan, line) ==
    IF Len(chan) < LOG_CHANNEL_CAPACITY THEN Append(chan, line)
    ELSE Append(Tail(chan), line)

\* mqtt_log of a line that fits its 256 bytes: LOG_CHANNEL.try_send, which
\* fails on a full queue; the line is then dropped and mqtt_log returns.
mqtt_log(chan, line) ==
    IF Len(chan) < LOG_CHANNEL_CAPACITY THEN Append(chan, line) ELSE chan

\* No iteration of minimq_task was made in the last step.
NoTick == [op |-> "none"]

\* mqtt_log! called by another task than minimq_task: main's start message,
\* the actuator's messages.
mqtt_log_task ==
    /\ produced < MaxLines
    /\ produced' = produced + 1
    /\ log_channel' = mqtt_log(log_channel, produced + 1)
    /\ tick' = [op |-> "mqtt_log", line |-> produced + 1,
                pre |-> [log_channel |-> log_channel]]
    /\ UNCHANGED <<clock, otherThanSession, tcp_socket, ret, lost, TARGET_STATE,
                   need_resubscribe, last_published_state>>

----------------------------------------------------------------------------
(* mqtt.rs: the session orchestrator *)

STATE_UPDATE_PERIOD == 60000

\* The topics and payloads of inbound messages.
Topics == {"set", "cmd", "other"}
Payloads == {<<"off">>, <<"low">>, <<"medium">>, <<"high">>, <<"OFF">>,
             <<"ping">>, <<"ping", "abc">>}

\* The results of minimq.poll: nothing, an inbound message handed to
\* process_incoming, Error::SessionReset, any other error.
PollNone == <<"None">>
PollMessage(topic, msg) == <<"Message", topic, msg>>
PollSessionReset == <<"SessionReset">>
PollError == <<"Error">>
Polls == {PollNone, PollSessionReset, PollError}
             \cup {PollMessage(t, m) : t \in Topics, m \in Payloads}

\* MqttCommand
CommandUnknown == <<"Unknown">>
CommandSet(st) == <<"Set", st>>

\* Variant: a set payload that is not recognised switches the device off.
process_incoming_default_off(topic, msg) ==
    IF topic = "set"
    THEN CASE msg = <<"low">> -> [cmd |-> CommandSet(TargetOn("Low")), log |-> <<>>]
           [] msg = <<"medium">> -> [cmd |-> CommandSet(TargetOn("Medium")), log |-> <<>>]
           [] msg = <<"high">> -> [cmd |-> CommandSet(TargetOn("High")), log |-> <<>>]
           [] OTHER -> [cmd |-> CommandSet(TargetOff), log |-> <<>>]
    ELSE [cmd |-> CommandUnknown, log |-> <<"unknown", topic, msg>>]

\* process_incoming: the command, and the line it passes to mqtt_log! if
\* any. A payload is its words; "ping <rest>" is the word ping and more.
process_incoming(topic, msg) ==
    IF topic = "set"
    THEN CASE msg = <<"off">> -> [cmd |-> CommandSet(TargetOff), log |-> <<>>]
           [] msg = <<"low">> -> [cmd |-> CommandSet(TargetOn("Low")), log |-> <<>>]
           [] msg = <<"medium">> -> [cmd |-> CommandSet(TargetOn("Medium")), log |-> <<>>]
           [] msg = <<"high">> -> [cmd |-> CommandSet(TargetOn("High")), log |-> <<>>]
           [] OTHER -> [cmd |-> CommandUnknown,
                        log |-> <<"Received unknown set command", msg>>]
    ELSE IF topic = "cmd"
    THEN IF msg[1] = "ping" /\ Len(msg) > 1
         THEN [cmd |-> CommandUnknown, log |-> <<"Pong", Tail(msg)>>]
         ELSE [cmd |-> CommandUnknown,
               log |-> <<"Received unknown cmd command", msg>>]
    ELSE [cmd |-> CommandUnknown, log |-> <<"Received unknown topic", topic>>]

\* Variant: every poll error asks for a new subscription and is logged.
poll_result_any_error(p, target, resubscribe) ==
    IF p[1] = "Message"
    THEN LET r == process_incoming(p[2], p[3])
         IN [target |-> IF r.cmd[1] = "Set" THEN r.cmd[2] ELSE target,
             resubscribe |-> resubscribe, log |-> r.log]
    ELSE IF p \in {PollSessionReset, PollError}
    THEN [target |-> target, resubscribe |-> TRUE,
          log |-> <<"MQTT connection was reset!">>]
    ELSE [target |-> target, resubscribe |-> resubscribe, log |-> <<>>]

\* The match on the result of minimq.poll: the target state and
\* need_resubscribe after it, and the line passed to mqtt_log! if any.
poll_result(p, target, resubscribe) ==
    IF p[1] = "Message"
    THEN LET r == process_incoming(p[2], p[3])
         IN [target |-> IF r.cmd[1] = "Set" THEN r.cmd[2] ELSE target,
             resubscribe |-> resubscribe, log |-> r.log]
    ELSE IF p = PollSessionReset
    THEN [target |-> target, resubscribe |-> TRUE,
          log |-> <<"MQTT connection was reset!">>]
    ELSE [target |-> target, resubscribe |-> resubscribe, log |-> <<>>]

\* Variant: the subscription is taken for made whatever subscribe returns.
subscribe_result_ignored(resubscribe, result) == FALSE

\* need_resubscribe after the subscription step of a connected iteration;
\* result is what subscribe returns if it is called.
subscribe_result(resubscribe, result) ==
    IF resubscribe THEN (IF result = "Ok" THEN FALSE ELSE TRUE) ELSE FALSE

\* Variant: the loop stops at the first publish that fails and puts the line
\* back.
RECURSIVE drain_until_failure(_, _, _)
drain_until_failure(chan, results, i) ==
    IF chan = <<>> THEN <<>>
    ELSE IF results[i] = "Ok"
    THEN <<<<Head(chan), results[i]>>>> \o drain_until_failure(Tail(chan), results, i + 1)
    ELSE <<>>

\* The drain loop: the lines received from the queue, in order, each with
\* the result of its publish; results gives the result of the i-th publish.
\* The loop ends when try_receive finds the queue empty.
RECURSIVE drain(_, _, _)
drain(chan, results, i) ==
    IF chan = <<>> THEN <<>>
    ELSE <<<<Head(chan), results[i]>>>> \o drain(Tail(chan), results, i + 1)

\* Variant: the state is due only when it has changed.
state_due_changed(now, last, new_state) ==
    last[2] # new_state /\ new_state # DeviceUnknown

\* Variant: the state is due from STATE_UPDATE_PERIOD on, Unknown as well.
state_due_early(now, last, new_state) ==
    \/ duration_since(now, last[1]) >= STATE_UPDATE_PERIOD
    \/ last[2] # new_state

\* The condition under which the state is published.
state_due(now, last, new_state) ==
    \/ duration_since(now, last[1]) > STATE_UPDATE_PERIOD
    \/ (last[2] # new_state /\ new_state # DeviceUnknown)

\* Variant: the record is written whatever publish returns.
state_published_always(last, due, result, now, new_state) ==
    IF due THEN <<now, new_state>> ELSE last

\* last_published_state after the publish of the state: written when the
\* state was due and publish returned Ok, left alone otherwise.
state_published(last, due, result, now, new_state) ==
    IF due /\ result = "Ok" THEN <<now, new_state>> ELSE last

\* The patterns of publish results over one drain: all succeed, all fail,
\* every second one fails.
PublishResults ==
    {[i \in 1..LOG_CHANNEL_CAPACITY |-> "Ok"],
     [i \in 1..LOG_CHANNEL_CAPACITY |-> "Err"],
     [i \in 1..LOG_CHANNEL_CAPACITY |-> IF i % 2 = 0 THEN "Err" ELSE "Ok"]}

\* One iteration of minimq_task's loop, from ensure_connected to the ticker,
\* for a poll result in polls and a device state in states, formatting a line
\* only while fewer than lines have been.
minimq_task_loop(polls, states, lines) ==
    \E sock \in ensure_connected_socket(tcp_socket), p \in polls,
       is_connected \in BOOLEAN, subscribed \in {"Ok", "Err"},
       published \in PublishResults, new_state \in states,
       publish_result \in {"Ok", "Err"} :
        LET polled == poll_result(p, TARGET_STATE, need_resubscribe)
            logs == polled.log # <<>>
            chan1 == IF logs THEN mqtt_log(log_channel, produced + 1)
                     ELSE log_channel
            subscribes == is_connected /\ polled.resubscribe
            drained == IF is_connected THEN drain(chan1, published, 1) ELSE <<>>
            now == clock
            due == is_connected /\ state_due(now, last_published_state, new_state)
        IN /\ logs => produced < lines
           \* inputs that are not used take one value
           /\ ~subscribes => subscribed = "Ok"
           /\ (~is_connected \/ chan1 = <<>>) => published[1] = "Ok" /\ published[2] = "Ok"
           /\ ~is_connected => new_state = DeviceOff
           /\ ~due => publish_result = "Ok"
           /\ tcp_socket' = sock
           /\ ret' = NoRet
           /\ lost' = Lost(lost, stack.current_socket_id, tcp_socket, sock)
           /\ TARGET_STATE' = polled.target
           /\ produced' = IF logs THEN produced + 1 ELSE produced
           /\ need_resubscribe' =
                 IF is_connected
                 THEN subscribe_result(polled.resubscribe, subscribed)
                 ELSE polled.resubscribe
           /\ log_channel' =
                 IF is_connected
                 THEN SubSeq(chan1, Len(drained) + 1, Len(chan1))
                 ELSE chan1
           /\ last_published_state' =
                 state_published(last_published_state, due, publish_result,
                                 now, new_state)
           /\ tick' = [op |-> "loop", poll |-> p, logged |-> polled.log,
                       is_connected |-> is_connected,
                       subscribe |-> IF subscribes THEN subscribed ELSE "none",
                       drained |-> drained,
                       now |-> now,
                       new_state |-> IF is_connected THEN new_state ELSE <<"none">>,
                       publish |-> IF due THEN publish_result ELSE "none",
                       pre |-> [target_state |-> TARGET_STATE,
                                need_resubscribe |-> need_resubscribe,
                                last_published_state |-> last_published_state,
                                log_channel |-> log_channel,
                                produced |-> produced]]
           /\ UNCHANGED <<clock, otherThanSession>>

\* Time passes while minimq_task waits for its ticker.
SessionAdvance ==
    \E d \in SessionSteps :
        /\ clock + d <= MaxSessionTime
        /\ clock' = clock + d
        /\ tick' = NoTick
        /\ UNCHANGED <<otherThanSession, tcp_socket, ret, lost, TARGET_STATE,
                       need_resubscribe, last_published_state, log_channel,
                       produced>>

\* The iterations of the session specifications: every poll result; every
\* device state over passing time; the lines of the log queue; the poll
\* results that bear on the subscription.
commands_loop ==
    minimq_task_loop(Polls, {DeviceOff}, FewLines)

telemetry_loop ==
    minimq_task_loop({PollNone}, DeviceState, FewLines)

log_loop ==
    minimq_task_loop({PollNone, PollSessionReset, PollError,
                      PollMessage("cmd", <<"ping", "abc">>)},
                     {DeviceOff}, MaxLines)

subscribe_loop ==
    minimq_task_loop({PollNone, PollSessionReset, PollError,
                      PollMessage("set", <<"high">>)}, {DeviceOff}, FewLines)

\* the device states seen by the iterations of the refresh specification
RefreshStates == {DeviceOff, DeviceUnknown, DeviceOn("Low")}

\* The period of the Ticker that paces the iterations of minimq_task.
TICKER_PERIOD == 1000

\* The iteration of a tick of the Ticker: the first at task start, then one
\* after each ticker.next().
refresh_loop ==
    /\ IF tick.op = "none" THEN TRUE ELSE tick.now < clock
    /\ minimq_task_loop({PollNone}, RefreshStates, FewLines)

\* ticker.next().await at the end of an iteration: the Ticker expires one
\* period after its last expiry.
ticker_next ==
    /\ IF tick.op = "loop" THEN tick.now = clock ELSE FALSE
    /\ clock + TICKER_PERIOD <= MaxRefreshTime
    /\ clock' = clock + TICKER_PERIOD
    /\ UNCHANGED <<otherThanSession, tcp_socket, ret, lost, TARGET_STATE,
                   need_resubscribe, last_published_state, log_channel,
                   produced, tick>>

NextCommands == commands_loop

NextRefresh == refresh_loop \/ ticker_next

NextSubscribe == subscribe_loop

NextTelemetry == telemetry_loop \/ SessionAdvance

NextLog == log_loop \/ mqtt_log_task

----------------------------------------------------------------------------
(* main.rs, state.rs, mqtt.rs: the tasks under the executor *)

\* The executor polls one task at a time; a task runs from one suspension
\* point to the next, and no time passes while it does. Every step below is
\* a statement, or the statements between two suspension points, of one
\* task. Lines passed to mqtt_log! are not followed here.

Tasks == {"led_detector_task", "state_actuator_task", "minimq_task"}

\* The awaits of a lock: a task found not running there waits for the lock.
LockPcs == {"lock_target", "lock_state"}

\* Mutex::lock on a mutex held by `holder`, polled by task t: the holder
\* after the poll. The poll is ready exactly when it finds no holder.
lock(holder, t) == IF holder = None THEN Some(t) ELSE holder

\* Variant: the first poll of the lock is never ready, so that every lock
\* suspends its task once.
lock_ready_after_yield(holder, first_poll) == holder = None /\ ~first_poll

\* The poll of Mutex::lock is ready exactly when it finds the mutex
\* unlocked, the first poll as any other.
lock_ready(holder, first_poll) == holder = None

\* Variant: the guard outlives the statement, the mutex stays locked.
guard_kept(holder) == holder

\* The guard is dropped: at the end of the statement for a temporary, at the
\* end of the block or function otherwise.
guard_dropped(holder) == None

\* Task t reaches or stays at pc p: it goes on running, or it is suspended.
Goes(t, p) == pc' = [pc EXCEPT ![t] = p] /\ running' = Some(t)
Suspends(t, p) == pc' = [pc EXCEPT ![t] = p] /\ running' = None

\* Task t is at p and runs, or is woken there.
Runs(t, p) == pc[t] = p /\ running = Some(t)
Woken(t, p) == pc[t] = p /\ running = None
Polled(t, p) == pc[t] = p /\ running \in {None, Some(t)}

\* led_detector_task up to its first select4.
led_detector_start ==
    /\ Woken("led_detector_task", "spawned")
    /\ Suspends("led_detector_task", "select4")
    /\ UNCHANGED <<clock, leds, unknown_state_since, tcp_socket, TARGET_STATE,
                   need_resubscribe, last_published_state, dsm_guard,
                   target_guard, local, pin, otherThanTasks>>

\* select4 completes: an edge, or POLL_PERIOD.
led_detector_wake ==
    /\ Woken("led_detector_task", "select4")
    /\ Goes("led_detector_task", "lock_state")
    /\ UNCHANGED <<clock, leds, unknown_state_since, tcp_socket, TARGET_STATE,
                   need_resubscribe, last_published_state, dsm_guard,
                   target_guard, local, pin, otherThanTasks>>

\* DEVICE_STATE_MANAGER.lock().await in led_detector_task.
led_detector_lock ==
    /\ Polled("led_detector_task", "lock_state")
    /\ dsm_guard' = IF lock_ready(dsm_guard, running = Some("led_detector_task"))
                  THEN lock(dsm_guard, "led_detector_task") ELSE dsm_guard
    /\ IF lock_ready(dsm_guard, running = Some("led_detector_task"))
       THEN Goes("led_detector_task", "update")
       ELSE Suspends("led_detector_task", "lock_state")
    /\ UNCHANGED <<clock, leds, unknown_state_since, tcp_socket, TARGET_STATE,
                   need_resubscribe, last_published_state,
                   target_guard, local, pin, otherThanTasks>>

\* The three updates under the guard, the end of the block, select4.
led_detector_update ==
    /\ Runs("led_detector_task", "update")
    /\ \E l0 \in Level, l1 \in Level, l2 \in Level :
          leds' = update(update(update(leds, 0, l0, clock), 1, l1, clock),
                         2, l2, clock)
    /\ dsm_guard' = guard_dropped(dsm_guard)
    /\ Suspends("led_detector_task", "select4")
    /\ UNCHANGED <<clock, unknown_state_since, tcp_socket, TARGET_STATE,
                   need_resubscribe, last_published_state,
                   target_guard, local, pin, otherThanTasks>>

\* state_actuator_task up to the head of its loop, and the loop head after
\* the settle timer: now is read.
actuator_start ==
    /\ \/ Woken("state_actuator_task", "spawned")
       \/ Woken("state_actuator_task", "settle")
    /\ local' = [local EXCEPT !["state_actuator_task"] = <<clock>>]
    /\ Goes("state_actuator_task", "lock_target")
    /\ UNCHANGED <<clock, leds, unknown_state_since, tcp_socket, TARGET_STATE,
                   need_resubscribe, last_published_state, dsm_guard,
                   target_guard, pin, otherThanTasks>>

\* TARGET_STATE.lock().await in state_actuator_task.
actuator_lock_target ==
    /\ Polled("state_actuator_task", "lock_target")
    /\ target_guard' = IF lock_ready(target_guard, running = Some("state_actuator_task"))
                     THEN lock(target_guard, "state_actuator_task") ELSE target_guard
    /\ IF lock_ready(target_guard, running = Some("state_actuator_task"))
       THEN Goes("state_actuator_task", "read_target")
       ELSE Suspends("state_actuator_task", "lock_target")
    /\ UNCHANGED <<clock, leds, unknown_state_since, tcp_socket, TARGET_STATE,
                   need_resubscribe, last_published_state, dsm_guard,
                   local, pin, otherThanTasks>>

\* The target state is copied out of the guard next to now; the statement
\* ends.
actuator_read_target ==
    /\ Runs("state_actuator_task", "read_target")
    /\ local' = [local EXCEPT !["state_actuator_task"] =
                    Append(@, TARGET_STATE)]
    /\ target_guard' = guard_dropped(target_guard)
    /\ Goes("state_actuator_task", "lock_state")
    /\ UNCHANGED <<clock, leds, unknown_state_since, tcp_socket, TARGET_STATE,
                   need_resubscribe, last_published_state, dsm_guard,
                   pin, otherThanTasks>>

\* DEVICE_STATE_MANAGER.lock().await in get_current_state, called by
\* state_actuator_task.
actuator_lock_state ==
    /\ Polled("state_actuator_task", "lock_state")
    /\ dsm_guard' = IF lock_ready(dsm_guard, running = Some("state_actuator_task"))
                  THEN lock(dsm_guard, "state_actuator_task") ELSE dsm_guard
    /\ IF lock_ready(dsm_guard, running = Some("state_actuator_task"))
       THEN Goes("state_actuator_task", "read_state")
       ELSE Suspends("state_actuator_task", "lock_state")
    /\ UNCHANGED <<clock, leds, unknown_state_since, tcp_socket, TARGET_STATE,
                   need_resubscribe, last_published_state,
                   target_guard, local, pin, otherThanTasks>>

\* get_current_state returns state(now) for the now read at the head of
\* the loop; its guard is dropped.
actuator_read_state ==
    /\ Runs("state_actuator_task", "read_state")
    /\ local' = [local EXCEPT !["state_actuator_task"] =
                    Append(@, state(leds, @[1]))]
    /\ dsm_guard' = guard_dropped(dsm_guard)
    /\ Goes("state_actuator_task", "get_action")
    /\ UNCHANGED <<clock, leds, unknown_state_since, tcp_socket, TARGET_STATE,
                   need_resubscribe, last_published_state,
                   target_guard, pin, otherThanTasks>>

\* The match on get_action, up to the next timer: the button is pressed for
\* a push and the push timer awaited, the settle timer is awaited otherwise.
actuator_get_action ==
    /\ Runs("state_actuator_task", "get_action")
    /\ LET l == local["state_actuator_task"]
           r == get_action(l[3], l[2], l[1], unknown_state_since)
       IN /\ unknown_state_since' = r.since
          /\ IF r.action = "None"
             THEN pin' = pin /\ Suspends("state_actuator_task", "settle")
             ELSE pin' = "Low" /\ Suspends("state_actuator_task", "push")
    /\ local' = [local EXCEPT !["state_actuator_task"] = <<>>]
    /\ UNCHANGED <<clock, leds, tcp_socket, TARGET_STATE,
                   need_resubscribe, last_published_state, dsm_guard,
                   target_guard, otherThanTasks>>

\* The push timer fires: the button is released, the settle timer awaited.
actuator_release ==
    /\ Woken("state_actuator_task", "push")
    /\ pin' = "High"
    /\ Suspends("state_actuator_task", "settle")
    /\ UNCHANGED <<clock, leds, unknown_state_since, tcp_socket, TARGET_STATE,
                   need_resubscribe, last_published_state, dsm_guard,
                   target_guard, local, otherThanTasks>>

\* minimq_task up to the head of its loop.
minimq_start ==
    /\ Woken("minimq_task", "spawned")
    /\ last_published_state' = <<clock, DeviceUnknown>>
    /\ need_resubscribe' = TRUE
    /\ Goes("minimq_task", "ensure_connected")
    /\ UNCHANGED <<clock, leds, unknown_state_since, tcp_socket, TARGET_STATE,
                   dsm_guard, target_guard, local, pin, otherThanTasks>>

\* ensure_connected up to its first await: none for an established socket;
\* any other is aborted and flush awaited.
minimq_ensure_connected ==
    /\ Runs("minimq_task", "ensure_connected")
    /\ IF tcp_state(tcp_socket) = "Established"
       THEN tcp_socket' = tcp_socket /\ Goes("minimq_task", "poll")
       ELSE /\ tcp_socket' = [st |-> "Closed", rx |-> 0, tx |-> 0]
            /\ Suspends("minimq_task", "flush")
    /\ UNCHANGED <<clock, leds, unknown_state_since, TARGET_STATE,
                   need_resubscribe, last_published_state, dsm_guard,
                   target_guard, local, pin, otherThanTasks>>

\* flush returns, with an error or without; connect is awaited.
minimq_flushed ==
    /\ Woken("minimq_task", "flush")
    /\ Suspends("minimq_task", "connect")
    /\ UNCHANGED <<clock, leds, unknown_state_since, tcp_socket, TARGET_STATE,
                   need_resubscribe, last_published_state, dsm_guard,
                   target_guard, local, pin, otherThanTasks>>

\* connect returns, with an error or without.
minimq_connected ==
    /\ Woken("minimq_task", "connect")
    /\ tcp_socket' \in ensure_connected_socket(tcp_socket)
    /\ Goes("minimq_task", "poll")
    /\ UNCHANGED <<clock, leds, unknown_state_since, TARGET_STATE,
                   need_resubscribe, last_published_state, dsm_guard,
                   target_guard, local, pin, otherThanTasks>>

\* The poll results of the task specification.
TaskPolls == {PollNone, PollSessionReset, PollError,
              PollMessage("set", <<"high">>), PollMessage("cmd", <<"ping">>)}

\* Variant: an error of poll other than a session reset is returned from
\* the task.
after_poll_or_return(p) ==
    IF p[1] = "Message" /\ process_incoming(p[2], p[3]).cmd[1] = "Set"
    THEN "lock_target"
    ELSE IF p = PollError THEN "returned"
    ELSE "is_connected"

\* Where minimq_task goes on after the match on the result of poll: to the
\* await of set_target_state for a Set command, to the connection check for
\* anything else, errors included.
after_poll(p) ==
    IF p[1] = "Message" /\ process_incoming(p[2], p[3]).cmd[1] = "Set"
    THEN "lock_target"
    ELSE "is_connected"

\* minimq.poll and the match on its result, up to the await of
\* set_target_state if a target was set.
minimq_poll ==
    /\ Runs("minimq_task", "poll")
    /\ \E p \in TaskPolls :
          LET polled == poll_result(p, TARGET_STATE, need_resubscribe)
          IN /\ need_resubscribe' = polled.resubscribe
             /\ local' = [local EXCEPT !["minimq_task"] =
                             IF after_poll(p) = "lock_target"
                             THEN <<polled.target>> ELSE <<>>]
             /\ Goes("minimq_task", after_poll(p))
    /\ UNCHANGED <<clock, leds, unknown_state_since, tcp_socket, TARGET_STATE,
                   last_published_state, dsm_guard,
                   target_guard, pin, otherThanTasks>>

\* TARGET_STATE.lock().await in set_target_state.
minimq_lock_target ==
    /\ Polled("minimq_task", "lock_target")
    /\ target_guard' = IF lock_ready(target_guard, running = Some("minimq_task"))
                     THEN lock(target_guard, "minimq_task") ELSE target_guard
    /\ IF lock_ready(target_guard, running = Some("minimq_task"))
       THEN Goes("minimq_task", "write_target")
       ELSE Suspends("minimq_task", "lock_target")
    /\ UNCHANGED <<clock, leds, unknown_state_since, tcp_socket, TARGET_STATE,
                   need_resubscribe, last_published_state, dsm_guard,
                   local, pin, otherThanTasks>>

\* The target state is written through the guard; the statement ends.
minimq_write_target ==
    /\ Runs("minimq_task", "write_target")
    /\ TARGET_STATE' = local["minimq_task"][1]
    /\ local' = [local EXCEPT !["minimq_task"] = <<>>]
    /\ target_guard' = guard_dropped(target_guard)
    /\ Goes("minimq_task", "is_connected")
    /\ UNCHANGED <<clock, leds, unknown_state_since, tcp_socket,
                   need_resubscribe, last_published_state, dsm_guard,
                   pin, otherThanTasks>>

\* The connection check: when connected, the subscription, the drain and
\* the reading of now, up to the await of get_current_state; the ticker
\* otherwise.
minimq_is_connected ==
    /\ Runs("minimq_task", "is_connected")
    /\ \E is_connected \in BOOLEAN, subscribed \in {"Ok", "Err"} :
          IF is_connected
          THEN /\ need_resubscribe' = subscribe_result(need_resubscribe, subscribed)
               /\ local' = [local EXCEPT !["minimq_task"] = <<clock>>]
               /\ Goes("minimq_task", "lock_state")
          ELSE /\ need_resubscribe' = need_resubscribe
               /\ local' = local
               /\ Suspends("minimq_task", "ticker")
    /\ UNCHANGED <<clock, leds, unknown_state_since, tcp_socket, TARGET_STATE,
                   last_published_state, dsm_guard,
                   target_guard, pin, otherThanTasks>>

\* DEVICE_STATE_MANAGER.lock().await in get_current_state, called by
\* minimq_task.
minimq_lock_state ==
    /\ Polled("minimq_task", "lock_state")
    /\ dsm_guard' = IF lock_ready(dsm_guard, running = Some("minimq_task"))
                  THEN lock(dsm_guard, "minimq_task") ELSE dsm_guard
    /\ IF lock_ready(dsm_guard, running = Some("minimq_task"))
       THEN Goes("minimq_task", "read_state")
       ELSE Suspends("minimq_task", "lock_state")
    /\ UNCHANGED <<clock, leds, unknown_state_since, tcp_socket, TARGET_STATE,
                   need_resubscribe, last_published_state,
                   target_guard, local, pin, otherThanTasks>>

\* get_current_state returns state(now) and its guard is dropped; the state
\* is published if due; the ticker is awaited.
minimq_publish_state ==
    /\ Runs("minimq_task", "read_state")
    /\ dsm_guard' = guard_dropped(dsm_guard)
    /\ \E publish_result \in {"Ok", "Err"} :
          LET now == local["minimq_task"][1]
              new_state == state(leds, now)
          IN last_published_state' =
                state_published(last_published_state,
                                state_due(now, last_published_state, new_state),
                                publish_result, now, new_state)
    /\ local' = [local EXCEPT !["minimq_task"] = <<>>]
    /\ Suspends("minimq_task", "ticker")
    /\ UNCHANGED <<clock, leds, unknown_state_since, tcp_socket, TARGET_STATE,
                   need_resubscribe, target_guard, pin, otherThanTasks>>

\* The ticker fires: the next iteration.
minimq_tick ==
    /\ Woken("minimq_task", "ticker")
    /\ Goes("minimq_task", "ensure_connected")
    /\ UNCHANGED <<clock, leds, unknown_state_since, tcp_socket, TARGET_STATE,
                   need_resubscribe, last_published_state, dsm_guard,
                   target_guard, local, pin, otherThanTasks>>

\* Time passes while every task is suspended.
TaskAdvance ==
    /\ running = None
    /\ \E d \in TaskSteps :
          /\ clock + d <= MaxTaskTime
          /\ clock' = clock + d
    /\ UNCHANGED <<leds, unknown_state_since, tcp_socket, TARGET_STATE,
                   need_resubscribe, last_published_state, taskVars,
                   otherThanTasks>>

led_detector_next ==
    \/ led_detector_start
    \/ led_detector_wake
    \/ led_detector_lock
    \/ led_detector_update

actuator_next ==
    \/ actuator_start
    \/ actuator_lock_target
    \/ actuator_read_target
    \/ actuator_lock_state
    \/ actuator_read_state
    \/ actuator_get_action
    \/ actuator_release

minimq_next ==
    \/ minimq_start
    \/ minimq_ensure_connected
    \/ minimq_flushed
    \/ minimq_connected
    \/ minimq_poll
    \/ minimq_lock_target
    \/ minimq_write_target
    \/ minimq_is_connected
    \/ minimq_lock_state
    \/ minimq_publish_state
    \/ minimq_tick

NextTasks == led_detector_next \/ actuator_next \/ minimq_next \/ TaskAdvance

----------------------------------------------------------------------------
(* state.rs: the actuation loop and its timers *)

\* state_actuator_task with its timers. The task is polled when its timer
\* expires and runs to its next await in no time; the other tasks show as
\* the target and the device state the task finds.

PUSH_SHORT == 500
PUSH_LONG == 2000
SETTLE == 5000

\* No push was made yet.
NoPulse == [action |-> "None"]

\* Variant: a short push is held as long as a long one.
push_millis_long(action) == PUSH_LONG

\* The duration of the timer awaited with the output low.
push_millis(action) == IF action = "ShortPush" THEN PUSH_SHORT ELSE PUSH_LONG

\* The timer of the task has expired, or the task was never polled.
Expired == timer = None \/ timer = Some(clock)

\* One iteration from the head of the loop to its first await: the clock,
\* the target and the current state are read, get_action is called; for a
\* push the line is logged, the output is set low and the push timer
\* awaited, otherwise the settle timer is awaited.
actuator_iteration ==
    /\ pc["state_actuator_task"] \in {"spawned", "settle"}
    /\ Expired
    /\ \E current_state \in DeviceState, target_state \in TargetState :
          LET r == get_action(current_state, target_state, clock, unknown_state_since)
          IN /\ unknown_state_since' = r.since
             /\ decided' = <<"get_action", current_state, target_state, clock,
                             r.action, r.log>>
             /\ IF r.action = "None"
                THEN /\ pin' = pin
                     /\ pulse' = pulse
                     /\ timer' = Some(clock + SETTLE)
                     /\ pc' = [pc EXCEPT !["state_actuator_task"] = "settle"]
                ELSE /\ pin' = "Low"
                     /\ pulse' = [action |-> r.action, start |-> clock, end |-> None]
                     /\ timer' = Some(clock + push_millis(r.action))
                     /\ pc' = [pc EXCEPT !["state_actuator_task"] = "push"]
    /\ UNCHANGED <<clock, trackerVars, unknownRun, adapterVars, sessionVars,
                   running, dsm_guard, target_guard, local, samplerVars>>

\* The push timer expires: the output is set high, the settle timer awaited.
actuator_push_end ==
    /\ pc["state_actuator_task"] = "push"
    /\ Expired
    /\ pin' = "High"
    /\ pulse' = [pulse EXCEPT !.end = Some(clock)]
    /\ timer' = Some(clock + SETTLE)
    /\ pc' = [pc EXCEPT !["state_actuator_task"] = "settle"]
    /\ UNCHANGED <<clock, trackerVars, decideVars, adapterVars, sessionVars,
                   running, dsm_guard, target_guard, local, samplerVars>>

\* Time passes, up to the expiry of the timer.
ActuatorAdvance ==
    \E d \in ActuatorSteps :
        /\ clock + d <= MaxActuatorTime
        /\ timer # None => clock + d <= timer[1]
        /\ clock' = clock + d
        /\ UNCHANGED <<trackerVars, decideVars, adapterVars, sessionVars,
                       taskVars, timerVars, samplerVars>>

NextActuator == actuator_iteration \/ actuator_push_end \/ ActuatorAdvance

----------------------------------------------------------------------------
(* Specifications *)

\* The state after construction: main() spawns the tasks at clock 0, the
\* statics and the tasks' locals hold their initial values.
Init ==
    /\ clock = 0
    /\ leds = DeviceStateManager_new
    /\ classified = NoCall
    /\ unknown_state_since = None
    /\ decided = NoCall
    /\ unknownRun = <<>>
    /\ stack = BlockingSocketStack_new
    /\ tcp_socket = TcpSocket_new
    /\ ret = NoRet
    /\ issued = <<>>
    /\ closed = {}
    /\ hist = [on |-> FALSE]
    /\ lost = FALSE
    /\ TARGET_STATE = TargetOff
    /\ need_resubscribe = TRUE
    /\ last_published_state = <<0, DeviceUnknown>>
    /\ log_channel = <<>>
    /\ produced = 0
    /\ tick = NoTick
    /\ pc = [t \in Tasks |-> "spawned"]
    /\ running = None
    /\ dsm_guard = None
    /\ target_guard = None
    /\ local = [t \in Tasks |-> <<>>]
    /\ pin = "High"
    /\ timer = None
    /\ pulse = NoPulse
    /\ poll_timer = None
    /\ device = NoDevice

\* The same state, with the sampler's iterations recorded from the start.
InitHistory ==
    /\ clock = 0
    /\ leds = DeviceStateManager_new
    /\ classified = NoCall
    /\ unknown_state_since = None
    /\ decided = NoCall
    /\ unknownRun = <<>>
    /\ stack = BlockingSocketStack_new
    /\ tcp_socket = TcpSocket_new
    /\ ret = NoRet
    /\ issued = <<>>
    /\ closed = {}
    /\ hist = [on |-> TRUE, calls |-> <<>>, last |-> <<>>]
    /\ lost = FALSE
    /\ TARGET_STATE = TargetOff
    /\ need_resubscribe = TRUE
    /\ last_published_state = <<0, DeviceUnknown>>
    /\ log_channel = <<>>
    /\ produced = 0
    /\ tick = NoTick
    /\ pc = [t \in Tasks |-> "spawned"]
    /\ running = None
    /\ dsm_guard = None
    /\ target_guard = None
    /\ local = [t \in Tasks |-> <<>>]
    /\ pin = "High"
    /\ timer = None
    /\ pulse = NoPulse
    /\ poll_timer = None
    /\ device = NoDevice

\* The state after construction in front of a device: led_detector_task has
\* reached its first wait at clock 0.
InitSampler ==
    /\ clock = 0
    /\ leds = DeviceStateManager_new
    /\ classified = NoCall
    /\ unknown_state_since = None
    /\ decided = NoCall
    /\ unknownRun = <<>>
    /\ stack = BlockingSocketStack_new
    /\ tcp_socket = TcpSocket_new
    /\ ret = NoRet
    /\ issued = <<>>
    /\ closed = {}
    /\ hist = [on |-> FALSE]
    /\ lost = FALSE
    /\ TARGET_STATE = TargetOff
    /\ need_resubscribe = TRUE
    /\ last_published_state = <<0, DeviceUnknown>>
    /\ log_channel = <<>>
    /\ produced = 0
    /\ tick = NoTick
    /\ pc = [t \in Tasks |-> "spawned"]
    /\ running = None
    /\ dsm_guard = None
    /\ target_guard = None
    /\ local = [t \in Tasks |-> <<>>]
    /\ pin = "High"
    /\ timer = None
    /\ pulse = NoPulse
    /\ poll_timer = Some(POLL_PERIOD)
    /\ device \in [start : StartTimes, fall : FallTimes]

\* The sampler on its periodic poll, the device, classification.
SpecSampler == InitSampler /\ [][NextSampler]_vars

\* The signal tracker: sampling, classification, passing time.
SpecTracker == Init /\ [][NextTracker]_vars

\* The signal tracker with the history of its record calls.
SpecHistory == InitHistory /\ [][NextHistory]_vars

\* The actuation reconciler: decisions, passing time.
SpecDecide == Init /\ [][NextDecide]_vars

\* The socket adapter: the protocol client's calls, connection maintenance,
\* the network.
SpecAdapter == Init /\ [][NextAdapter]_vars

\* The session orchestrator over every result of poll.
SpecCommands == Init /\ [][NextCommands]_vars

\* The session orchestrator over every device state and passing time.
SpecTelemetry == Init /\ [][NextTelemetry]_vars

\* The session orchestrator over the poll results that bear on the
\* subscription, where the ticker keeps waking minimq_task: the loop has no
\* exit and every iteration ends at ticker.next().
SpecSubscribe == Init /\ [][NextSubscribe]_vars /\ WF_vars(subscribe_loop)

\* The session orchestrator paced by its Ticker.
SpecRefresh == Init /\ [][NextRefresh]_vars

\* The session orchestrator and the producers of log lines.
SpecLog == Init /\ [][NextLog]_vars

\* The actuation loop with its timers.
SpecActuator == Init /\ [][NextActuator]_vars

\* The three tasks under the executor.
SpecTasks == Init /\ [][NextTasks]_vars

\* The same, where the executor polls every task that was woken, every
\* timer fires and the awaits of the socket return.
SpecTasksFair ==
    /\ SpecTasks
    /\ SF_vars(led_detector_next)
    /\ SF_vars(actuator_next)
    /\ SF_vars(minimq_next)

----------------------------------------------------------------------------
(* Properties of the signal tracker *)

\* The lookup of spec section 4.1, as a table over the three sub-states.
RefLed(obs, now) ==
    IF now - obs[1] <= 900 THEN "Blinking"
    ELSE IF obs[2] = "High" THEN "On" ELSE "Off"

RefTable ==
    [m \in {"Off", "On", "Blinking"} \X {"Off", "On", "Blinking"} \X {"Off", "On", "Blinking"} |->
        IF m = <<"Off", "Off", "Off">> THEN <<"Off">>
        ELSE IF m = <<"On", "Off", "Off">> THEN <<"On", "Low">>
        ELSE IF m = <<"On", "On", "Off">> THEN <<"On", "Medium">>
        ELSE IF m = <<"On", "On", "On">> THEN <<"On", "High">>
        ELSE IF m = <<"Blinking", "Off", "Off">> THEN <<"Heating", "Low">>
        ELSE IF m = <<"On", "Blinking", "Off">> THEN <<"Heating", "Medium">>
        ELSE IF m = <<"On", "On", "Blinking">> THEN <<"Heating", "High">>
        ELSE <<"Unknown">>]

LastCall == hist.calls[Len(hist.calls)]
LastLevel(k) == LastCall[2][k + 1]
BeforeUpdate(k) == hist.last[k + 1]
AfterUpdate(k) == hist.last[k + 2]

\* Times at and after the last recorded iteration.
LaterTimes == {LastCall[1] + d : d \in {0, 1, 399, 400, 899, 900, 901, 5000}}

\* C17: update called with the level already stored for its LED leaves all
\* three observations as they were, so that the classification at every
\* later time is what it would have been without the call; no update
\* changes the observation of another LED than its own.
C17_RecordIdempotent ==
    (hist.on /\ hist.calls # <<>>) =>
        \A k \in 0..2 :
            /\ \A i \in (0..2) \ {k} : AfterUpdate(k)[i] = BeforeUpdate(k)[i]
            /\ LastLevel(k) = BeforeUpdate(k)[k][2] =>
                  /\ AfterUpdate(k) = BeforeUpdate(k)
                  /\ \A t \in LaterTimes :
                        state(AfterUpdate(k), t) = state(BeforeUpdate(k), t)

\* LED0 was sampled High again, some time after it had been recorded High,
\* in an iteration that recorded a change of LED1.
C17_Witness ==
    /\ hist.on /\ hist.calls # <<>>
    /\ LastLevel(0) = "High"
    /\ BeforeUpdate(0)[0][2] = "High"
    /\ LastCall[1] > BeforeUpdate(0)[0][1]
    /\ leds[0] = BeforeUpdate(0)[0]
    /\ AfterUpdate(1)[1] # BeforeUpdate(1)[1]

\* The level sampled for LED i in the j-th recorded iteration, the level
\* stored before it, and the iterations that changed the level.
CallLevel(i, j) == hist.calls[j][2][i + 1]
LevelBefore(i, j) == IF j = 1 THEN "Low" ELSE CallLevel(i, j - 1)
Changes(i) == {j \in 1..Len(hist.calls) : CallLevel(i, j) # LevelBefore(i, j)}

\* The observation of LED i by the history: the most recent change, or the
\* initial observation.
LastChange(i) ==
    IF Changes(i) = {} THEN <<0, "Low">>
    ELSE LET j == CHOOSE j \in Changes(i) : \A k \in Changes(i) : k <= j
         IN <<hist.calls[j][1], CallLevel(i, j)>>

\* C18: after any sequence of update calls each LED's observation is the
\* time and level of the most recent call for that LED whose level differed
\* from the one stored just before it (the initial observation if there is
\* none), and a classification is the lookup over these three observations
\* and now, whatever the earlier calls were.
C18_LastChangeOnly ==
    hist.on =>
        /\ \A i \in 0..2 : leds[i] = LastChange(i)
        /\ classified[1] = "state" =>
              classified[4] = RefTable[<<RefLed(LastChange(0), classified[3]),
                                         RefLed(LastChange(1), classified[3]),
                                         RefLed(LastChange(2), classified[3])>>]

\* LED0 was sampled High, Low and Low again at three different times, and
\* the state was classified after that.
C18_Witness ==
    /\ hist.on /\ Len(hist.calls) >= 3
    /\ \E j \in 1..(Len(hist.calls) - 2) :
          /\ CallLevel(0, j) = "High" /\ LevelBefore(0, j) = "Low"
          /\ CallLevel(0, j + 1) = "Low"
          /\ CallLevel(0, j + 2) = "Low"
          /\ hist.calls[j][1] < hist.calls[j + 1][1]
          /\ hist.calls[j + 1][1] < hist.calls[j + 2][1]
          /\ j + 2 = Len(hist.calls)
          /\ leds[0] = <<hist.calls[j + 1][1], "Low">>
    /\ classified[1] = "state"

----------------------------------------------------------------------------
(* Properties of the actuation reconciler *)

\* The goal shape of spec section 4.2 step 1.
GoalShape(current) ==
    IF current = <<"Off">> THEN <<"TargetOff">> ELSE <<"TargetOn", current[2]>>

\* C2: for a current state other than Unknown whose goal shape (Off -> Off,
\* Heating(p) or On(p) -> On(p)) equals the target, get_action returns None.
C2_EqualShapesNoPush ==
    (/\ decided[1] = "get_action"
     /\ decided[2] # DeviceUnknown
     /\ GoalShape(decided[2]) = decided[3])
        => decided[5] = "None"

\* A decision with current Heating(p) and target On(p).
C2_Witness ==
    /\ decided[1] = "get_action"
    /\ decided[2] = Heating("Medium")
    /\ decided[3] = TargetOn("Medium")
    /\ decided[5] = "None"

\* C3: for a classifiable current state whose goal shape differs from the
\* target, get_action returns LongPush when exactly one of the two is Off
\* and ShortPush when both are On at different power levels.
C3_PushKind ==
    (/\ decided[1] = "get_action"
     /\ decided[2] # DeviceUnknown
     /\ GoalShape(decided[2]) # decided[3])
        => LET oneOff == (GoalShape(decided[2]) = <<"TargetOff">>)
                            # (decided[3] = <<"TargetOff">>)
           IN decided[5] = IF oneOff THEN "LongPush" ELSE "ShortPush"

\* A decision with current On(Medium) and target On(High): ShortPush.
C3_Witness ==
    /\ decided[1] = "get_action"
    /\ decided[2] = DeviceOn("Medium")
    /\ decided[3] = TargetOn("High")
    /\ decided[5] = "ShortPush"

\* Index of the first call of the timing episode that call j of the run
\* belongs to: the call after the latest earlier LongPush, else the first.
EpisodeStart(j) ==
    LET pushes == {i \in 1..(j - 1) : unknownRun[i][2] = "LongPush"}
    IN IF pushes = {} THEN 1
       ELSE 1 + CHOOSE i \in pushes : \A k \in pushes : k <= i

\* C4: in a run of calls that all see Unknown, get_action returns None until
\* the time since the first call of the run exceeds 21 s, then LongPush on
\* that one call, which leaves unknown_state_since empty; the timing starts
\* afresh with the call after a LongPush.
C4_Escalation ==
    /\ \A j \in 1..Len(unknownRun) :
          unknownRun[j][2] =
              IF unknownRun[j][1] - unknownRun[EpisodeStart(j)][1] > 21000
              THEN "LongPush" ELSE "None"
    /\ (decided[1] = "get_action" /\ decided[2] = DeviceUnknown
            /\ decided[5] = "LongPush") => unknown_state_since = None

\* A run of Unknown calls: None at the start, None (with the warning) after
\* more than 11 s, LongPush after more than 21 s, then None again.
C4_Witness ==
    /\ Len(unknownRun) >= 4
    /\ \E j \in 2..(Len(unknownRun) - 2) :
          /\ unknownRun[j][2] = "None"
          /\ unknownRun[j][1] - unknownRun[1][1] > 11000
          /\ unknownRun[j + 1][2] = "LongPush"
          /\ \A i \in 1..j : unknownRun[i][2] = "None"
          /\ unknownRun[j + 2][2] = "None"
    /\ unknown_state_since # None

----------------------------------------------------------------------------
(* Properties of the socket adapter *)

\* The last step was the call op made with the live socket id.
LiveCall(op) ==
    /\ ret.op = op
    /\ ret.pre.stack.current_socket_id = <<ret.id>>

IsIdMismatch(res) == res[1] = "UnexpectedSocketId"

\* The set of ids handed out so far.
IssuedIds == {issued[i] : i \in 1..Len(issued)}

\* C5: socket() called while a socket is open fails with UnexpectedSocketId
\* and leaves current_socket_id and last_socket_id unchanged; at most one of
\* the ids handed out is not yet closed.
C5_OneLiveSocket ==
    /\ (ret.op = "socket" /\ ret.pre.stack.current_socket_id # <<>>)
          => (IsIdMismatch(ret.out.res) /\ stack = ret.pre.stack)
    /\ Cardinality(IssuedIds \ closed) <= 1

\* socket() was called with socket 1 open and failed.
C5_Witness ==
    /\ ret.op = "socket"
    /\ ret.pre.stack.current_socket_id = <<1>>
    /\ IsIdMismatch(ret.out.res)
    /\ stack.last_socket_id = 1

\* C6: connect, send, receive or close with an id that is not the open
\* socket's id (a stale id, or any id when none is open) returns
\* UnexpectedSocketId without borrowing the wrapped socket and leaves the
\* stack and the wrapped socket unchanged.
C6_StaleIdRejected ==
    (/\ ret.op \in {"connect", "send", "receive", "close"}
     /\ ret.pre.stack.current_socket_id # <<ret.id>>)
        => /\ IsIdMismatch(ret.out.res)
           /\ ~ret.out.touched
           /\ stack = ret.pre.stack
           /\ tcp_socket = ret.pre.sock

\* send was called with the id of a closed socket while a later one is open.
C6_Witness ==
    /\ ret.op = "send"
    /\ ret.id \in ret.pre.closed
    /\ ret.pre.stack.current_socket_id # <<>>
    /\ ret.pre.sock.st = "Established"
    /\ IsIdMismatch(ret.out.res)

\* C7: receive with the live id returns ConnectionReset whenever the socket
\* may no longer receive, bytes buffered or not, and then takes no byte out
\* of the buffer; otherwise WouldBlock when nothing is buffered; otherwise
\* the count of bytes read.
C7_ReceiveResetFirst ==
    LiveCall("receive") =>
        IF ~ret.out.may_recv
        THEN ret.out.res = <<"ConnectionReset">> /\ tcp_socket = ret.pre.sock
        ELSE IF ret.pre.sock.rx = 0
        THEN ret.out.res = <<"WouldBlock">> /\ tcp_socket = ret.pre.sock
        ELSE /\ ret.out.res[1] = "Ok"
             /\ ret.out.res[2] \in 1..ret.arg
             /\ tcp_socket = [ret.pre.sock EXCEPT !.rx = @ - ret.out.res[2]]

\* receive found the socket unable to receive with bytes still buffered.
C7_Witness ==
    /\ LiveCall("receive")
    /\ ~ret.out.may_recv
    /\ ret.pre.sock.rx > 0
    /\ ret.out.res = <<"ConnectionReset">>
    /\ tcp_socket.rx = ret.pre.sock.rx

\* C8: send with the live id returns WouldBlock when the headroom (send
\* capacity minus queued bytes) is zero; otherwise it returns the number of
\* bytes written, at most min(headroom, len), or ConnectionReset when the
\* write meets a socket that cannot send; the queue never exceeds the
\* capacity.
C8_SendWithinHeadroom ==
    /\ tcp_socket.tx <= TxCapacity
    /\ LiveCall("send") =>
          LET headroom == TxCapacity - ret.pre.sock.tx
              len == ret.arg
          IN IF headroom = 0
             THEN ret.out.res = <<"WouldBlock">> /\ tcp_socket = ret.pre.sock
             ELSE IF len > 0 /\ ret.pre.sock.st \notin {"Established", "CloseWait"}
             THEN ret.out.res = <<"ConnectionReset">> /\ tcp_socket = ret.pre.sock
             ELSE /\ ret.out.res[1] = "Ok"
                  /\ ret.out.res[2] <= headroom
                  /\ ret.out.res[2] <= len
                  /\ tcp_socket = [ret.pre.sock EXCEPT !.tx = @ + ret.out.res[2]]

\* A partial write: two bytes offered, room for one, one written.
C8_Witness ==
    /\ LiveCall("send")
    /\ ret.arg = 2
    /\ TxCapacity - ret.pre.sock.tx = 1
    /\ ret.out.res = <<"Ok", 1>>

\* C9: connect with the live id fails with UnexpectedAddr when the remote
\* address is not the configured endpoint; otherwise it returns Ok exactly
\* when the wrapped socket is Established and WouldBlock in every other
\* state; it never changes the wrapped socket or the stack.
C9_ConnectOnlyReports ==
    LiveCall("connect") =>
        /\ ret.out.res =
              IF ret.arg # "endpoint" THEN <<"UnexpectedAddr", "endpoint", ret.arg>>
              ELSE IF ret.pre.sock.st = "Established" THEN <<"Ok", <<>>>>
              ELSE <<"WouldBlock">>
        /\ tcp_socket = ret.pre.sock
        /\ stack = ret.pre.stack

\* connect to the configured endpoint while the wrapped socket is closed.
C9_Witness ==
    /\ LiveCall("connect")
    /\ ret.arg = "endpoint"
    /\ ret.pre.sock.st = "Closed"
    /\ ret.out.res = <<"WouldBlock">>
    /\ tcp_socket.st = "Closed"

\* C10: close with the live id frees the logical connection, so that the
\* next socket() succeeds; the ids returned by socket() strictly increase,
\* so a closed id is never the open socket's id again and every later call
\* with it fails.
C10_IdsNeverReused ==
    /\ LiveCall("close") =>
          (ret.out.res[1] = "Ok" /\ stack.current_socket_id = <<>>)
    /\ (ret.op = "socket" /\ ret.pre.stack.current_socket_id = <<>>) =>
          (ret.out.res[1] = "Ok" /\ stack.current_socket_id = <<ret.out.res[2]>>)
    /\ \A i, j \in 1..Len(issued) : i < j => issued[i] < issued[j]
    /\ \A id \in closed : stack.current_socket_id # <<id>>
    /\ (ret.op \in {"connect", "send", "receive", "close"}
            /\ ret.id \in ret.pre.closed) => IsIdMismatch(ret.out.res)

\* socket() succeeded a second time, after the first socket was closed.
C10_Witness ==
    /\ ret.op = "socket"
    /\ ret.pre.closed = {1}
    /\ ret.out.res = <<"Ok", 2>>
    /\ issued = <<1, 2>>

\* C20 as claimed: after the wrapped socket has left Established under an
\* open logical socket, the first receive on that socket returns
\* ConnectionReset also when ensure_connected has established the wrapped
\* socket anew before that receive (the socket is Established again at the
\* call).
C20_LossAlwaysReported ==
    (LiveCall("receive") /\ ret.pre.lost /\ ret.pre.sock.st = "Established")
        => ret.out.res = <<"ConnectionReset">>

\* C20: after the wrapped socket has left Established under an open logical
\* socket, the first receive on that socket returns ConnectionReset exactly
\* when the wrapped socket may not receive at that call, as after a
\* reconnect that failed; once ensure_connected has established the socket
\* anew the receive returns WouldBlock or bytes of the new connection, and
\* no reset is seen on the logical socket.
C20_LossReportedUnlessReconnected ==
    (LiveCall("receive") /\ ret.pre.lost) =>
        /\ ret.out.res = <<"ConnectionReset">> <=> ~ret.out.may_recv
        /\ (ret.pre.sock.st \notin {"Established", "FinWait1", "FinWait2"}
                /\ ret.pre.sock.rx = 0) => ret.out.res = <<"ConnectionReset">>
        /\ ret.pre.sock.st = "Established" => ret.out.res # <<"ConnectionReset">>

\* The first receive after a loss finds the socket established anew, with
\* nothing buffered, and returns WouldBlock.
C20_Witness ==
    /\ LiveCall("receive")
    /\ ret.pre.lost
    /\ ret.pre.sock = [st |-> "Established", rx |-> 0, tx |-> 0]
    /\ ret.out.res = <<"WouldBlock">>
    /\ stack.current_socket_id = <<ret.id>>

----------------------------------------------------------------------------
(* The session orchestrator: inbound commands *)

\* The target state a payload of the set topic asks for.
SetPayloads == {<<"off">>, <<"low">>, <<"medium">>, <<"high">>}
Asked(msg) ==
    CASE msg = <<"off">> -> TargetOff
      [] msg = <<"low">> -> TargetOn("Low")
      [] msg = <<"medium">> -> TargetOn("Medium")
      [] msg = <<"high">> -> TargetOn("High")

\* The last step was an iteration of minimq_task's loop.
Ticked == tick.op = "loop"

\* C11: an iteration whose poll hands over a message of the set topic with
\* payload off, low, medium or high leaves the target state Off, On(Low),
\* On(Medium) or On(High); an iteration with any other message, no message
\* or a poll error leaves the target state as it was.
C11_TargetSetOnlyByCommand ==
    Ticked =>
        IF tick.poll[1] = "Message" /\ tick.poll[2] = "set"
              /\ tick.poll[3] \in SetPayloads
        THEN TARGET_STATE = Asked(tick.poll[3])
        ELSE TARGET_STATE = tick.pre.target_state

\* A set message with payload high has changed the target from Off, and a
\* later ping has left it there.
C11_Witness ==
    /\ Ticked
    /\ tick.poll = PollMessage("cmd", <<"ping", "abc">>)
    /\ tick.logged = <<"Pong", <<"abc">>>>
    /\ tick.pre.target_state = TargetOn("High")
    /\ TARGET_STATE = TargetOn("High")

----------------------------------------------------------------------------
(* The session orchestrator: telemetry *)

\* In the last iteration: the time since last_published_state was written,
\* whether the state read differs from it, whether publish was called for
\* the state.
Elapsed == tick.now - tick.pre.last_published_state[1]
Changed == tick.new_state # tick.pre.last_published_state[2]
StatePublished == tick.publish # "none"

\* The record made at task start; any other was made by a publish.
NeverPublished == <<0, DeviceUnknown>>

\* C12 as stated: on a connected tick after a publish, the state is published
\* when, and only when, at least 60 s have elapsed since the last published
\* state, or the state differs from the last published one and is not
\* Unknown.
C12_PublishedFromSixtySeconds ==
    (Ticked /\ tick.is_connected
        /\ tick.pre.last_published_state # NeverPublished) =>
        (StatePublished <=>
            \/ Elapsed >= STATE_UPDATE_PERIOD
            \/ (Changed /\ tick.new_state # DeviceUnknown))

\* C12, amended: on a connected tick the state is published when, and only
\* when, more than 60 s have elapsed since last_published_state was written
\* (at task start, then at each publish that succeeded), or the state differs
\* from the last published one and is not Unknown; so an unchanged state is
\* not republished up to 60 s, Unknown is published only on elapsed time, and
\* nothing is published on a tick that is not connected. A publish that
\* succeeds records the time and the state, any other tick leaves the record.
C12_PublishedAfterSixtySeconds ==
    Ticked =>
        /\ StatePublished <=>
              /\ tick.is_connected
              /\ \/ Elapsed > STATE_UPDATE_PERIOD
                 \/ (Changed /\ tick.new_state # DeviceUnknown)
        /\ (StatePublished /\ ~Changed) => Elapsed > STATE_UPDATE_PERIOD
        /\ (StatePublished /\ tick.new_state = DeviceUnknown)
              => Elapsed > STATE_UPDATE_PERIOD
        /\ last_published_state =
              IF tick.publish = "Ok" THEN <<tick.now, tick.new_state>>
              ELSE tick.pre.last_published_state

\* A connected tick exactly 60 s after a publish of Off finds Off again and
\* publishes nothing.
C12_Witness ==
    /\ Ticked /\ tick.is_connected
    /\ tick.pre.last_published_state = <<30000, DeviceOff>>
    /\ tick.new_state = DeviceOff
    /\ Elapsed = STATE_UPDATE_PERIOD
    /\ ~StatePublished

----------------------------------------------------------------------------
(* The session orchestrator: subscriptions *)

\* In the last iteration a subscription was due at the connection check:
\* it was pending before, or poll reported a session reset.
Pending == tick.pre.need_resubscribe \/ tick.poll = PollSessionReset

\* What one iteration does to need_resubscribe: subscribe is called exactly
\* on a connected tick with a subscription due, and the flag is set after the
\* iteration exactly when a subscription was due and no subscribe succeeded.
ResubscribeStep ==
    IF Ticked
    THEN /\ tick.subscribe # "none" <=> (tick.is_connected /\ Pending)
         /\ need_resubscribe <=> (Pending /\ tick.subscribe # "Ok")
    ELSE need_resubscribe

\* The last iteration was connected and no subscribe failed in it.
SubscribeNotFailed == Ticked /\ tick.is_connected /\ tick.subscribe # "Err"

\* C13: need_resubscribe is set at task start and by every poll that reports
\* a session reset; only a subscribe that succeeds on a connected tick clears
\* it, a subscribe that fails leaves it set; and if connected ticks on which
\* no subscribe fails keep coming, a set flag is eventually cleared.
C13_ResubscribeUntilSubscribed ==
    /\ []ResubscribeStep
    /\ ([]<>SubscribeNotFailed) => (need_resubscribe ~> ~need_resubscribe)

\* After the flag was cleared, a poll reports a session reset and the
\* subscribe of that tick fails: the flag is set again.
C13_Witness ==
    /\ Ticked
    /\ ~tick.pre.need_resubscribe
    /\ tick.poll = PollSessionReset
    /\ tick.subscribe = "Err"
    /\ need_resubscribe

----------------------------------------------------------------------------
(* The queue of log lines *)

\* The lines of a queue, and of the pairs received by a drain.
Lines(chan) == {chan[i] : i \in 1..Len(chan)}
DrainedLines == [i \in 1..Len(tick.drained) |-> tick.drained[i][1]]

\* The line formatted in the last step, if any, and the queue as it was when
\* the last iteration reached its drain loop.
Fresh ==
    IF tick.op = "mqtt_log" THEN {tick.line}
    ELSE IF Ticked /\ tick.logged # <<>> THEN {tick.pre.produced + 1}
    ELSE {}
QueueAtDrain ==
    IF tick.logged # <<>> /\ Len(tick.pre.log_channel) < LOG_CHANNEL_CAPACITY
    THEN Append(tick.pre.log_channel, tick.pre.produced + 1)
    ELSE tick.pre.log_channel

\* C14: a connected tick receives every queued line, oldest first, passes
\* each to publish once and leaves the queue empty, whatever the publishes
\* return; a tick that is not connected receives none; and no step puts into
\* the queue a line other than the one just formatted, so a line that was
\* received is never queued again.
C14_DrainedOnceInOrder ==
    /\ Ticked =>
          IF tick.is_connected
          THEN /\ DrainedLines = QueueAtDrain
               /\ \A i, j \in 1..Len(tick.drained) :
                      i < j => tick.drained[i][1] < tick.drained[j][1]
               /\ log_channel = <<>>
          ELSE /\ tick.drained = <<>>
               /\ log_channel = QueueAtDrain
    /\ tick.op # "none" =>
          Lines(log_channel) \ Lines(tick.pre.log_channel) \subseteq Fresh

\* A connected tick has received three lines; the publish of the second
\* failed, the queue is empty.
C14_Witness ==
    /\ Ticked /\ tick.is_connected
    /\ Len(tick.drained) = 3
    /\ tick.drained[1][2] = "Ok"
    /\ tick.drained[2][2] = "Err"
    /\ tick.drained[3][2] = "Ok"
    /\ log_channel = <<>>

\* C15: the queue never holds more than 16 lines; a line formatted by any
\* task is appended when fewer than 16 are queued and is dropped otherwise,
\* the queued lines staying as they were; the step of the producer is taken
\* in either case, it never waits for room.
C15_FullQueueShedsNewest ==
    /\ Len(log_channel) <= LOG_CHANNEL_CAPACITY
    /\ tick.op = "mqtt_log" =>
          /\ produced = tick.line
          /\ log_channel =
                IF Len(tick.pre.log_channel) < LOG_CHANNEL_CAPACITY
                THEN Append(tick.pre.log_channel, tick.line)
                ELSE tick.pre.log_channel
    /\ (Ticked /\ tick.logged # <<>>) =>
          /\ produced = tick.pre.produced + 1
          /\ ~tick.is_connected =>
                log_channel =
                   IF Len(tick.pre.log_channel) < LOG_CHANNEL_CAPACITY
                   THEN Append(tick.pre.log_channel, produced)
                   ELSE tick.pre.log_channel

\* A task has formatted a line while 16 were queued: the queue still holds
\* the 16 oldest lines.
C15_Witness ==
    /\ tick.op = "mqtt_log"
    /\ Len(tick.pre.log_channel) = LOG_CHANNEL_CAPACITY
    /\ tick.line = LOG_CHANNEL_CAPACITY + 1
    /\ log_channel = [i \in 1..LOG_CHANNEL_CAPACITY |-> i]

----------------------------------------------------------------------------
(* The tasks: locks and progress *)

\* Task t holds a guard.
Holds(t) == dsm_guard = Some(t) \/ target_guard = Some(t)

\* The mutex awaited at a lock await of task t is free.
AwaitedFree(t) ==
    IF pc[t] = "lock_target" THEN target_guard = None ELSE dsm_guard = None

\* C19: a task that holds the guard of DEVICE_STATE_MANAGER or of
\* TARGET_STATE is the running one, so no guard is held at a suspension
\* point; a task stands at a lock await only while it runs and the mutex is
\* free, so no acquisition finds the mutex held and no task waits for one.
C19_NoGuardAcrossSuspension ==
    \A t \in Tasks :
        /\ Holds(t) => running = Some(t)
        /\ pc[t] \in LockPcs => (running = Some(t) /\ AwaitedFree(t))

\* minimq_task holds the guard of DEVICE_STATE_MANAGER while
\* state_actuator_task is suspended in a push and led_detector_task in
\* select4.
C19_Witness ==
    /\ dsm_guard = Some("minimq_task")
    /\ pc["minimq_task"] = "read_state"
    /\ pc["state_actuator_task"] = "push"
    /\ pc["led_detector_task"] = "select4"

\* C16: whatever connect, flush, poll, subscribe and publish return,
\* minimq_task comes to the head of its loop again and again, and so do
\* led_detector_task to its updates and state_actuator_task to get_action;
\* no task leaves its loop.
C16_LoopsKeepIterating ==
    /\ []<>Runs("minimq_task", "ensure_connected")
    /\ []<>Runs("led_detector_task", "update")
    /\ []<>Runs("state_actuator_task", "get_action")
    /\ [](\A t \in Tasks : pc[t] # "returned")

\* minimq_task has set the target in an earlier iteration; in this one
\* connect has failed and the task goes on to poll.
C16_Witness ==
    /\ Runs("minimq_task", "poll")
    /\ tcp_socket.st = "Closed"
    /\ TARGET_STATE = TargetOn("High")
    /\ need_resubscribe

----------------------------------------------------------------------------
(* The socket adapter: the suspending primitives *)

\* The last call called socket.write, socket.read.
CalledWrite == ret.op = "send" /\ "write" \in DOMAIN ret.out
CalledRead == ret.op = "receive" /\ "read" \in DOMAIN ret.out

\* C21: send calls socket.write only after it found headroom and with a
\* non-empty slice, and send of no bytes with headroom returns 0 without
\* calling it; receive calls socket.read only after the socket answered that
\* it may receive and that bytes are buffered; and no send and no receive
\* is left polling a future that is not ready.
C21_PrimitivesResolveAtOnce ==
    /\ ret.op \in {"send", "receive"} => ret.out.res # NotReady
    /\ CalledWrite => ret.out.write.window > 0 /\ ret.out.write.size > 0
    /\ (LiveCall("send") /\ ret.arg = 0 /\ ret.pre.sock.tx < TxCapacity) =>
          ret.out.res = Ok(0) /\ ~CalledWrite
    /\ CalledRead => ret.out.read.may_recv /\ ret.out.read.can_recv

\* send has called write with one byte of headroom for a slice cut to one
\* byte, and the byte was queued at once.
C21_Witness ==
    /\ CalledWrite
    /\ ret.arg = 2
    /\ ret.out.write = [window |-> 1, size |-> 1]
    /\ ret.out.res = Ok(1)
    /\ tcp_socket.tx = TxCapacity

----------------------------------------------------------------------------
(* The signal tracker: the first observations *)

\* C22 as stated: while the observations are the initial ones (Low since
\* Instant::MIN, no change recorded), every classification returns Off,
\* whatever the time of the call.
C22_OffFromStartup ==
    (classified[1] = "state" /\ classified[2] = DeviceStateManager_new)
        => classified[4] = DeviceOff

\* What the code does with the initial observations: Instant::MIN is the
\* origin of the clock, so up to 900 ms after it the three LEDs are taken
\* for blinking and the classification is Unknown; it is Off afterwards.
C22_UnknownUntilBlinkDuration ==
    (classified[1] = "state" /\ classified[2] = DeviceStateManager_new)
        => classified[4] = IF classified[3] - INSTANT_MIN > BLINK_DURATION
                           THEN DeviceOff ELSE DeviceUnknown

----------------------------------------------------------------------------
(* The actuation reconciler: unknown_state_since *)

\* The last step was a call of get_action that saw Unknown.
DecidedUnknown == decided[1] = "get_action" /\ decided[2] = DeviceUnknown

\* C23 as stated: after a call, unknown_state_since is non-empty only if the
\* call saw Unknown and returned None, and then it holds the time of the
\* first call of the current uninterrupted run of Unknown readings; every
\* other call leaves it empty.
C23_SinceIsStartOfRun ==
    decided[1] = "get_action" =>
        IF DecidedUnknown /\ decided[5] = "None"
        THEN unknown_state_since = Some(unknownRun[1][1])
        ELSE unknown_state_since = None

\* C23, amended: after a call that saw Unknown and returned None,
\* unknown_state_since holds the time of the first Unknown call made since
\* the last classifiable reading or, if one was returned since, since the
\* last LongPush for Unknown; that time is not later than the call's now.
\* Every call with a classifiable state, and every call that returns
\* LongPush for Unknown, leaves it empty.
C23_SinceIsStartOfEpisode ==
    decided[1] = "get_action" =>
        IF DecidedUnknown /\ decided[5] = "None"
        THEN /\ unknown_state_since =
                   Some(unknownRun[EpisodeStart(Len(unknownRun))][1])
             /\ unknown_state_since[1] <= decided[4]
        ELSE unknown_state_since = None

\* Unknown was answered by LongPush and is still seen: the time kept is that
\* of the call after the LongPush, not that of the first Unknown reading.
C23_Witness ==
    /\ DecidedUnknown /\ decided[5] = "None"
    /\ Len(unknownRun) > 2
    /\ unknownRun[Len(unknownRun) - 1][2] = "LongPush"
    /\ unknown_state_since = Some(decided[4])
    /\ unknownRun[1][1] < decided[4]

----------------------------------------------------------------------------
(* The actuation loop: the output *)

\* state_actuator_task is in a push.
Pushing == pc["state_actuator_task"] = "push"

\* The last step was a decision: get_action was called at this instant and
\* the task stands at the await that follows.
AtDecision == decided[1] = "get_action" /\ decided[4] = clock

\* C24: the output is low exactly while the task is in a push; a push ends
\* 500 ms after its start for ShortPush and 2000 ms for LongPush; a push
\* starts only at a decision, with the output high and the last push ended,
\* at least 5000 ms after that end; and a decision is followed by the settle
\* delay of 5000 ms whether it pushed or not: after a decision without push
\* the timer stands at 5000 ms from it, after a push at 5000 ms from its end.
C24_PushesAndSettle ==
    /\ pin = "Low" <=> Pushing
    /\ Pushing =>
          /\ pulse.end = None
          /\ pulse.action = decided[5]
          /\ pulse.start = decided[4]
          /\ timer = Some(pulse.start + (IF pulse.action = "ShortPush"
                                         THEN 500 ELSE 2000))
          /\ clock <= timer[1]
    /\ (pulse # NoPulse /\ ~Pushing) =>
          /\ pulse.end = Some(pulse.start + (IF pulse.action = "ShortPush"
                                             THEN 500 ELSE 2000))
          /\ decided[1] = "get_action" =>
                \/ decided[4] = pulse.start
                \/ decided[4] >= pulse.end[1] + 5000
    /\ pc["state_actuator_task"] = "settle" =>
          /\ pin = "High"
          /\ timer = Some(5000 + (IF decided[5] = "None" THEN decided[4]
                                  ELSE pulse.end[1]))
          /\ clock <= timer[1]

\* A long push from 5000 ms to 7000 ms, and the next decision at 12000 ms:
\* a short push that has just started.
C24_Witness ==
    /\ Pushing
    /\ pulse = [action |-> "ShortPush", start |-> 12000, end |-> None]
    /\ clock = 12000
    /\ pin = "Low"

----------------------------------------------------------------------------
(* The session orchestrator: ticks without connection *)

\* The last iteration found the client not connected.
TickedOffline == Ticked /\ ~tick.is_connected

\* What every tick without connection leaves alone: nothing is subscribed,
\* nothing published, no line received from the queue, which holds the lines
\* it held and the line of this tick's poll if there was room, and
\* last_published_state is as before.
OfflineFrame ==
    /\ tick.subscribe = "none"
    /\ tick.publish = "none"
    /\ tick.drained = <<>>
    /\ log_channel = QueueAtDrain
    /\ last_published_state = tick.pre.last_published_state

\* C25 as stated: a tick without connection subscribes nothing, publishes
\* nothing, removes no line from the queue and leaves need_resubscribe and
\* last_published_state unchanged.
C25_OfflineTickChangesNothing ==
    TickedOffline =>
        /\ OfflineFrame
        /\ need_resubscribe = tick.pre.need_resubscribe

\* C25, amended: a tick without connection subscribes nothing, publishes
\* nothing, removes no line from the queue and leaves last_published_state
\* unchanged; need_resubscribe is left as the poll of that tick left it: set
\* if the poll reported a session reset, unchanged otherwise.
C25_OfflineTickKeepsPollResult ==
    TickedOffline =>
        /\ OfflineFrame
        /\ need_resubscribe =
              (tick.pre.need_resubscribe \/ tick.poll = PollSessionReset)

\* A tick without connection whose poll reported a session reset: the flag,
\* clear before, is set; the line of an earlier tick is still queued and the
\* line of this one behind it.
C25_Witness ==
    /\ TickedOffline
    /\ tick.poll = PollSessionReset
    /\ ~tick.pre.need_resubscribe
    /\ need_resubscribe
    /\ tick.pre.log_channel = <<1>>
    /\ log_channel = <<1, 2>>

----------------------------------------------------------------------------
(* The session orchestrator: the record of the last publish *)

\* The last iteration called publish for a state that differs from the
\* recorded one and is not Unknown, and publish failed.
ChangeNotPublished ==
    /\ Ticked /\ tick.publish = "Err"
    /\ Changed /\ tick.new_state # DeviceUnknown

\* C26: an iteration changes last_published_state only if its publish of
\* the state returned Ok, and then to the pair of its now and the state it
\* published; after a publish that failed the record is as before, and an
\* iteration that follows the failed publish of a changed state, is
\* connected and reads the same state calls publish again.
C26_RecordOnlyOnSuccess ==
    [][tick'.op = "loop" =>
          /\ last_published_state' =
                IF tick'.publish = "Ok" THEN <<tick'.now, tick'.new_state>>
                ELSE last_published_state
          /\ (ChangeNotPublished /\ tick'.is_connected
                  /\ tick'.new_state = tick.new_state) => tick'.publish # "none"
      ]_vars

\* The publish of a changed state has failed at 30 s: the record still
\* holds what was published at 0 s.
C26_Witness ==
    /\ ChangeNotPublished
    /\ tick.now = 30000
    /\ tick.new_state = DeviceOn("High")
    /\ tick.pre.last_published_state = <<0, DeviceOff>>
    /\ last_published_state = <<0, DeviceOff>>

----------------------------------------------------------------------------
(* The signal tracker: a blinking LED under the periodic poll *)

\* get_current_state was called at a time when LED0 had been toggling for
\* 900 ms or more and LED1 and LED2 had been Low for more than 900 ms.
ClassifiedWhileToggling ==
    /\ classified # NoCall
    /\ classified[3] >= device.start + BLINK_DURATION
    /\ classified[3] - device.fall > BLINK_DURATION

\* LED1 and LED2 were Low from the start, or had been Low for more than
\* 900 ms when LED0 started to toggle.
LowBeforeToggling ==
    device.fall = 0 \/ device.start - device.fall > BLINK_DURATION

----------------------------------------------------------------------------
(* The tasks: the time passed to the classification *)

\* Task t has read now and has not yet classified with it: it is between
\* its Instant::now() and the return of get_current_state(now).
HoldsNow(t) ==
    \/ /\ t = "state_actuator_task"
       /\ pc[t] \in {"lock_target", "read_target", "lock_state", "read_state"}
    \/ /\ t = "minimq_task"
       /\ pc[t] \in {"lock_state", "read_state"}

\* C28: in every interleaving of the three tasks, the now that a task
\* passes to the classification is not earlier than any timestamp stored in
\* the LED observations, from the reading of the clock to the
\* classification: the elapsed time now - last_instant is never negative.
C28_NowNotBeforeObservations ==
    \A t \in Tasks :
        HoldsNow(t) =>
            \A i \in 0..2 : duration_since(local[t][1], leds[i][1]) >= 0

\* state_actuator_task is about to classify with the now of the very poll
\* that recorded a change of LED0: the elapsed time is zero.
C28_Witness ==
    /\ Runs("state_actuator_task", "read_state")
    /\ local["state_actuator_task"][1] = MaxTaskTime
    /\ leds[0] = <<MaxTaskTime, "High">>
    /\ leds[1][1] = 0

----------------------------------------------------------------------------
(* The session orchestrator: the refresh of the state *)

\* An iteration in which the client was connected and no publish of the
\* state failed.
GoodTick(t) == t.op = "loop" /\ t.is_connected /\ t.publish # "Err"

====
